---------------------------- MODULE Spec2Model ----------------------------
(***************************************************************************)
(* Action Pack receiver (src/cli/cpp/src/action_pack_server.cpp) and the   *)
(* process runner's environment builder (src/cli/cpp/src/process.cpp).     *)
(*                                                                         *)
(* Strings are modelled by what the code does with them:                   *)
(*   - a path is [abs, c]: whether it starts with '/', and its components; *)
(*     the empty string is EmptyStr;                                       *)
(*   - an environment key is the sequence of its characters;               *)
(*   - a pack_id is a sequence of 16 bytes, its hex form 32 characters.    *)
(* Payload bytes are abstract: a payload is [wire, pack], wire saying      *)
(* whether decode_payload accepts the bytes and pack what it decodes to.   *)
(***************************************************************************)
EXTENDS Integers, Sequences, FiniteSets, TLC

VARIABLES
  opts,        \* Options: the receiver's configuration (serve_loop's `local`)
  st,          \* ServerState: pubkeys_b64_by_id, policy_by_id, have_policy,
               \*   seen_pack_expiry_by_hex, seen_file (lines of seen_path)
  mu,          \* ServerState::mu: 0 when free, else the connection holding it
  cur_,        \* ConnLimiter::cur_
  max_,        \* ConnLimiter::max_
  loop,        \* serve_loop: [pc, client] of the accept loop
  conn,        \* one record per connection handler thread
  clock,       \* the system clock read by now_epoch_ms()
  environ,     \* the receiver process's own environment
  fs,          \* regular files of the file system: canonical path -> mode
  spawned,     \* processes started by run_capture, in order
  run,         \* one call of run_capture: its locals, its result, its child
  codec,       \* one use of the codec: what was encoded, the bytes, what was decoded
  reg          \* the receiver directory file, its lock, and the `register` processes

vars == <<opts, st, mu, cur_, max_, loop, conn, clock, environ, fs, spawned, run, codec, reg>>

\* the receiver's variables, which a call of run_capture leaves alone
server == <<opts, st, mu, cur_, max_, loop, conn, clock, environ, fs, spawned>>

----------------------------------------------------------------------------
(* Bounds of the model.                                                    *)

\* connections the peer side opens in one run
NumConns == 3
\* clock ticks in one run
MaxTicks == 3
\* steps in a pack of the step-interpreter specification
MaxSteps == 2
\* restarts of the server in a behaviour
MaxBoots == 1

----------------------------------------------------------------------------
(* Program constants.                                                      *)

\* handle_pack: const uint64_t skew_ms = 30'000
skew_ms == 30000
\* safe_write_file: mode & 0777u
ModeMask == 511
\* safe_write_file: if (m == 0) m = 0644
DefaultMode == 420
\* the width of a pack_id, std::array<uint8_t, 16>
PackIdBytes == 16

\* one clock tick of the model, in milliseconds
TickMs == skew_ms

----------------------------------------------------------------------------
(* Strings.                                                                *)

Path(abs, c) == [abs |-> abs, c |-> c]
\* the empty std::string
EmptyStr == Path(FALSE, <<>>)

IsPrefix(p, s) == Len(p) <= Len(s) /\ SubSeq(s, 1, Len(p)) = p

\* k.rfind(p, 0) == 0
StartsWith(k, p) == IsPrefix(p, k)

DropLast(s) == SubSeq(s, 1, Len(s) - 1)

Last(s) == s[Len(s)]

----------------------------------------------------------------------------
(* The file system the receiver runs on.                                   *)

\* directories (canonical component sequences); <<>> is "/"
Dirs == { <<>>, <<"sb">>, <<"bin">>, <<"etc">>, <<"home">> }
\* symbolic links: into the root from outside, out of the root to a
\* directory and to a file
Symlinks ==
  [ p \in { <<"ln">>, <<"sb", "out">>, <<"sb", "pw">> } |->
      IF p = <<"ln">> THEN <<"sb">>
      ELSE IF p = <<"sb", "out">> THEN <<"etc">>
      ELSE <<"etc", "passwd">> ]
\* the receiver process's working directory
ProcCwd == <<>>
\* getenv("HOME")
Home == <<"home">>

\* the regular files present when the receiver starts
InitialFiles ==
  [ p \in { <<"bin", "echo">>, <<"bin", "evil">>, <<"sb", "tool">>, <<"sb", "data">>,
             <<"etc", "passwd">> } |->
      IF p \in { <<"sb", "data">>, <<"etc", "passwd">> } THEN 420 ELSE 493 ]

NoFile == <<"?">>

\* Kernel path resolution: ".", "..", symbolic links; every component must
\* exist, and only a directory can be traversed.  NoFile when it fails.
\* A regular file renamed over a symbolic link has replaced the link.
RECURSIVE Resolve(_, _, _)
Resolve(files, stack, rest) ==
  IF stack = NoFile THEN NoFile
  ELSE IF rest = <<>> THEN stack
  ELSE IF stack \notin Dirs THEN NoFile
  ELSE LET h == Head(rest)
           nxt == Append(stack, h)
       IN IF h = "." THEN Resolve(files, stack, Tail(rest))
          ELSE IF h = ".." THEN
            Resolve(files, IF stack = <<>> THEN <<>> ELSE DropLast(stack), Tail(rest))
          ELSE IF nxt \in DOMAIN files THEN Resolve(files, nxt, Tail(rest))
          ELSE IF nxt \in DOMAIN Symlinks THEN Resolve(files, Symlinks[nxt], Tail(rest))
          ELSE IF nxt \in Dirs THEN Resolve(files, nxt, Tail(rest))
          ELSE NoFile

\* the file (or directory) a path string names for the kernel
Lookup(files, p) ==
  IF p = EmptyStr THEN NoFile
  ELSE Resolve(files, IF p.abs THEN <<>> ELSE ProcCwd, p.c)

\* realpath_str handing the path back as it was given
realpath_strAsGiven(files, p) == p

\* realpath_str: the canonical path, or the empty string
realpath_str(files, p) ==
  LET r == Lookup(files, p) IN IF r = NoFile THEN EmptyStr ELSE Path(TRUE, r)

\* (st.st_mode & 0111) != 0
HasExecBit(m) == \E bit \in {1, 8, 64} : (m \div bit) % 2 = 1

\* ::stat(c) == 0 && S_ISREG(st.st_mode) && (st.st_mode & 0111)
StatRegExec(files, p) ==
  LET r == Lookup(files, p) IN r \in DOMAIN files /\ HasExecBit(files[r])

\* within_root without the prefix test
within_rootUnchecked(path, root) == TRUE

\* within_root: string prefix, then end of string or '/'
within_root(path, root) ==
  IF root = EmptyStr THEN TRUE
  ELSE IF path = EmptyStr THEN FALSE
  ELSE IF path.abs /= root.abs THEN FALSE
  ELSE IF root.c = <<>> THEN path.c = <<>>     \* root "/": only "/" itself
  ELSE IsPrefix(root.c, path.c)

----------------------------------------------------------------------------
(* The codec (action_pack.cpp).  A byte string is a sequence of 0..255.    *)
(* A uint32_t or uint64_t is held as the integer with the same bits in     *)
(* two's complement (2^32 - k, or 2^64 - k, is -k), so that every value    *)
(* fits an integer of the model; the arithmetic on it is the machine's.    *)

\* nothing encoded or decoded yet
IdleCodec == [pc |-> "idle", kind |-> "", input |-> <<>>, enc |-> <<>>, dec |-> <<>>]

kPayloadVersion == 2
kMaxPayloadSteps == 10000
kMaxTotalWriteBytes == 8388608

\* uint32_t addition: the sum modulo 2^32, in the two's-complement reading
\* (2147483647 is 2^31 - 1, the largest value with the top bit clear)
Add32(a, b) ==
  IF a >= 0 /\ b >= 0 /\ a > 2147483647 - b
  THEN ((a - 2147483647) - 1) + ((b - 2147483647) - 1)
  ELSE IF a < 0 /\ b < 0 /\ a < ((0 - 2147483647) - 1) - b
  THEN ((a + 2147483647) + 1) + ((b + 2147483647) + 1)
  ELSE a + b

\* the n low bytes of v, least significant first (v >> 8*i) & 0xff
RECURSIVE LeBytes(_, _)
LeBytes(v, n) == IF n = 0 THEN <<>> ELSE <<v % 256>> \o LeBytes(v \div 256, n - 1)

write_u8(v) == <<v % 256>>
write_u16_le(v) == LeBytes(v, 2)
\* the same four bytes, most significant first
write_u32_be(v) == <<(v \div 16777216) % 256, (v \div 65536) % 256, (v \div 256) % 256, v % 256>>
write_u32_le(v) == LeBytes(v, 4)
write_u64_le(v) == LeBytes(v, 8)

\* a part of an encoding: the bytes appended, or the error
Wrote(bytes) == [ok |-> TRUE, error |-> "", bytes |-> bytes]
WriteFail(e) == [ok |-> FALSE, error |-> e, bytes |-> <<>>]

write_bytes(s) ==
  IF Len(s) > 65535 THEN WriteFail("string too long")
  ELSE Wrote(write_u16_le(Len(s)) \o s)

\* data.size() > 0xffffffff cannot happen for a sequence of the model
write_blob(data) == Wrote(write_u32_le(Len(data)) \o data)

\* Reader: the buffer and the index of *p in it; n is what is left
Reader(bytes) == [b |-> bytes, at |-> 1]
Left(r) == Len(r.b) - r.at + 1

\* need(k): k is unsigned, and one with the top bit set (negative here) is
\* larger than any buffer of the model
need(r, k) == k >= 0 /\ k <= Left(r)

Advance(r, k) == [r EXCEPT !.at = @ + k]
Byte(r, i) == r.b[r.at + i]
Got(v, r) == [ok |-> TRUE, v |-> v, r |-> r]
Short(r) == [ok |-> FALSE, v |-> 0, r |-> r]

\* four bytes as a uint32_t in the two's-complement reading
Val32(b0, b1, b2, b3) ==
  b0 + 256 * b1 + 65536 * b2 + 16777216 * (IF b3 >= 128 THEN b3 - 256 ELSE b3)

read_u8(r) == IF ~need(r, 1) THEN Short(r) ELSE Got(Byte(r, 0), Advance(r, 1))

read_u16_le(r) ==
  IF ~need(r, 2) THEN Short(r)
  ELSE Got(Byte(r, 0) + 256 * Byte(r, 1), Advance(r, 2))

read_u32_le(r) ==
  IF ~need(r, 4) THEN Short(r)
  ELSE Got(Val32(Byte(r, 0), Byte(r, 1), Byte(r, 2), Byte(r, 3)), Advance(r, 4))

\* a uint64_t whose high half is the sign extension of its low half is the
\* integer with those bits; any other one is outside the integers of the
\* model and stays the eight bytes it was read from
read_u64_le(r) ==
  IF ~need(r, 8) THEN Short(r)
  ELSE LET low == Val32(Byte(r, 0), Byte(r, 1), Byte(r, 2), Byte(r, 3))
           ext == IF Byte(r, 3) >= 128 THEN 255 ELSE 0
       IN  IF \A i \in 4..7 : Byte(r, i) = ext
           THEN Got(low, Advance(r, 8))
           ELSE Got(SubSeq(r.b, r.at, r.at + 7), Advance(r, 8))

Take(r, len) == SubSeq(r.b, r.at, r.at + len - 1)

read_bytes(r) ==
  LET len == read_u16_le(r)
  IN  IF ~len.ok THEN Short(r)
      ELSE IF ~need(len.r, len.v) THEN Short(len.r)
      ELSE Got(Take(len.r, len.v), Advance(len.r, len.v))

read_blob(r) ==
  LET len == read_u32_le(r)
  IN  IF ~len.ok THEN Short(r)
      ELSE IF ~need(len.r, len.v) THEN Short(len.r)
      ELSE Got(Take(len.r, len.v), Advance(len.r, len.v))

\* skip(k), for the callers that ignore its result
skip(r, k) == IF need(r, k) THEN Advance(r, k) ELSE r

EnvelopeMagic == <<83, 65, 80, 49>>

\* what std::vector::assign leaves in the payload when the range it copies
\* runs past the end of the buffer: the bytes that were there, then whatever
\* lay behind them
ReadPast(r) == Take(r, Left(r)) \o <<-1>>

encode_envelope(env) ==
  IF env.payload = <<>> THEN WriteFail("empty payload")
  ELSE IF env.signature = <<>> THEN WriteFail("empty signature")
  ELSE Wrote(EnvelopeMagic
             \o write_u32_le(Len(env.payload)) \o env.payload
             \o write_u32_le(Len(env.signature)) \o env.signature)

EnvelopeOut(payload, signature, outside) ==
  [ok |-> TRUE, error |-> "", payload |-> payload, signature |-> signature,
   outside |-> outside, crashed |-> FALSE]
EnvelopeFail(e, payload, outside) ==
  [ok |-> FALSE, error |-> e, payload |-> payload, signature |-> <<>>,
   outside |-> outside, crashed |-> FALSE]
EnvelopeCrash ==
  [ok |-> FALSE, error |-> "", payload |-> <<>>, signature |-> <<>>,
   outside |-> TRUE, crashed |-> TRUE]

\* payload_len + 4, computed in uint32_t
PayloadNeed(payload_len) == Add32(payload_len, 4)

\* decode_envelope on bytes; a copy that runs past the end of the buffer is
\* undefined, and `survives' says whether the process outlives it
decode_envelope_bytes(bytes, survives) ==
  LET r0 == Reader(bytes)
  IN  IF ~need(r0, 12) THEN EnvelopeFail("envelope too small", <<>>, FALSE)
      ELSE IF Take(r0, 4) /= EnvelopeMagic
      THEN EnvelopeFail("bad envelope magic", <<>>, FALSE)
      ELSE
        LET payload_len == read_u32_le(skip(r0, 4))
            r1 == payload_len.r
        IN  IF ~need(r1, PayloadNeed(payload_len.v))
            THEN EnvelopeFail("envelope truncated", <<>>, FALSE)
            ELSE
              LET outside == ~need(r1, payload_len.v)
                  payload == IF outside THEN ReadPast(r1) ELSE Take(r1, payload_len.v)
                  sig_len == read_u32_le(skip(r1, payload_len.v))
                  r2 == sig_len.r
              IN  IF outside /\ ~survives THEN EnvelopeCrash
                  ELSE IF ~sig_len.ok
                  THEN EnvelopeFail("envelope truncated", payload, outside)
                  ELSE IF ~need(r2, sig_len.v) \/ Left(r2) /= sig_len.v
                  THEN EnvelopeFail("envelope truncated", payload, outside)
                  ELSE EnvelopeOut(payload, Take(r2, sig_len.v), outside)

PayloadMagic == <<65, 80, 75, 49>>

ExecStep(argv, cwd, timeout_ms) ==
  [op |-> "exec", argv |-> argv, cwd |-> cwd, timeout_ms |-> timeout_ms]
WriteFileStep(path, data, mode) ==
  [op |-> "write", path |-> path, data |-> data, mode |-> mode]

\* the parts of an encoding in order: the first failure, or all the bytes
RECURSIVE Chain(_)
Chain(parts) ==
  IF parts = <<>> THEN Wrote(<<>>)
  ELSE IF ~Head(parts).ok THEN Head(parts)
  ELSE LET rest == Chain(Tail(parts))
       IN  IF ~rest.ok THEN rest ELSE Wrote(Head(parts).bytes \o rest.bytes)

\* total_write after the first i steps
RECURSIVE total_write(_, _)
total_write(steps, i) ==
  IF i = 0 THEN 0
  ELSE total_write(steps, i - 1)
       + (IF steps[i].op = "write" THEN Len(steps[i].data) ELSE 0)

KeyIdTooLongNever(key_id) == FALSE
KeyIdTooLong(key_id) == Len(key_id) > 255

EncodeStep(step) ==
  IF step.op = "exec"
  THEN Chain(<<Wrote(write_u8(1) \o write_u8(0) \o write_u16_le(0)
                     \o write_u32_le(step.timeout_ms)),
               write_bytes(step.cwd),
               IF Len(step.argv) > 65535 THEN WriteFail("too many argv entries")
               ELSE Chain(<<Wrote(write_u16_le(Len(step.argv)))>>
                          \o [j \in 1..Len(step.argv) |-> write_bytes(step.argv[j])])>>)
  ELSE Chain(<<Wrote(write_u8(2) \o write_u8(0) \o write_u16_le(0)
                     \o write_u32_le(step.mode)),
               write_bytes(step.path),
               write_blob(step.data)>>)

\* encode_payload; `order' is the order in which the unordered_map hands out
\* its keys
encode_payload(pack, order) ==
  IF pack.key_id = <<>> THEN WriteFail("missing key_id")
  ELSE IF KeyIdTooLong(pack.key_id) THEN WriteFail("key_id too long")
  ELSE IF Len(pack.steps) > kMaxPayloadSteps THEN WriteFail("too many steps")
  ELSE IF \E i \in 1..Len(pack.steps) : total_write(pack.steps, i) > kMaxTotalWriteBytes
  THEN WriteFail("total embedded write bytes too large")
  ELSE Chain(<<Wrote(PayloadMagic
                     \o write_u8(kPayloadVersion)
                     \o write_u8(Len(pack.key_id))
                     \o write_u16_le(0)
                     \o write_u64_le(pack.created_ms)
                     \o write_u64_le(pack.expires_ms)
                     \o pack.pack_id
                     \o write_u32_le(Len(order))
                     \o write_u32_le(Len(pack.steps))
                     \o pack.key_id),
               Chain([i \in 1..Len(order) |->
                        Chain(<<write_bytes(order[i]), write_bytes(pack.env[order[i]])>>)]),
               Chain([i \in 1..Len(pack.steps) |-> EncodeStep(pack.steps[i])])>>)

PayloadFail(e) == [ok |-> FALSE, error |-> e, pack |-> <<>>]

\* a loop `for (i = 0; i < count; ++i)' with an unsigned count: one with the
\* top bit set outlasts every buffer of the model
OneLess(count) == IF count < 0 THEN count ELSE count - 1

\* an assignment that keeps the value a key already has
EnvPutKeepFirst(env, k, v) ==
  [x \in DOMAIN env \cup {k} |-> IF x \in DOMAIN env THEN env[x] ELSE v]

\* out->env[k] = v
EnvPut(env, k, v) == [x \in DOMAIN env \cup {k} |-> IF x = k THEN v ELSE env[x]]

RECURSIVE DecodeEnv(_, _, _)
DecodeEnv(r, count, env) ==
  IF count = 0 THEN [ok |-> TRUE, env |-> env, r |-> r]
  ELSE LET k == read_bytes(r)
           v == read_bytes(k.r)
       IN  IF ~k.ok \/ ~v.ok THEN [ok |-> FALSE, env |-> env, r |-> r]
           ELSE DecodeEnv(v.r, OneLess(count), EnvPut(env, k.v, v.v))

RECURSIVE DecodeArgv(_, _, _)
DecodeArgv(r, argc, argv) ==
  IF argc = 0 THEN [ok |-> TRUE, argv |-> argv, r |-> r]
  ELSE LET arg == read_bytes(r)
       IN  IF ~arg.ok THEN [ok |-> FALSE, argv |-> argv, r |-> r]
           ELSE DecodeArgv(arg.r, argc - 1, Append(argv, arg.v))

StepsFail(e) == [ok |-> FALSE, error |-> e, steps |-> <<>>, r |-> <<>>]

\* the step loop of decode_payload: `count' steps still to read, `total' the
\* write bytes so far
RECURSIVE DecodeSteps(_, _, _, _, _)
DecodeSteps(r, version, count, total, steps) ==
  IF count = 0 THEN [ok |-> TRUE, error |-> "", steps |-> steps, r |-> r]
  ELSE
    LET opcode == read_u8(r)
        flags == read_u8(opcode.r)
        res2 == read_u16_le(flags.r)
        timeout_ms == read_u32_le(res2.r)
        cwd == read_bytes(timeout_ms.r)
    IN  IF ~opcode.ok \/ ~flags.ok \/ ~res2.ok \/ ~timeout_ms.ok \/ ~cwd.ok
        THEN StepsFail("step truncated")
        ELSE IF opcode.v = 1
        THEN LET argc == read_u16_le(cwd.r)
                 args == DecodeArgv(argc.r, argc.v, <<>>)
             IN  IF ~argc.ok THEN StepsFail("argv truncated")
                 ELSE IF ~args.ok THEN StepsFail("argv truncated")
                 ELSE DecodeSteps(args.r, version, count - 1, total,
                                  Append(steps, ExecStep(args.argv, cwd.v, timeout_ms.v)))
        ELSE IF opcode.v = 2
        THEN LET blob_len == read_u32_le(cwd.r)
                 r1 == blob_len.r
             IN  IF version = 1 THEN StepsFail("unsupported opcode")
                 ELSE IF ~blob_len.ok THEN StepsFail("write truncated")
                 ELSE IF blob_len.v < 0 \/ total + blob_len.v > kMaxTotalWriteBytes
                 THEN StepsFail("total embedded write bytes too large")
                 ELSE IF ~need(r1, blob_len.v) THEN StepsFail("write truncated")
                 ELSE DecodeSteps(skip(r1, blob_len.v), version, count - 1,
                                  total + blob_len.v,
                                  Append(steps, WriteFileStep(cwd.v, Take(r1, blob_len.v),
                                                              timeout_ms.v)))
        ELSE StepsFail("unsupported opcode")

\* decode_payload without its limit on step_count
TooManyStepsNever(step_count) == FALSE

\* step_count > kMaxPayloadSteps on a uint32_t
TooManySteps(step_count) == step_count < 0 \/ step_count > kMaxPayloadSteps

\* decode_payload on bytes
decode_payload_bytes(payload) ==
  LET r0 == Reader(payload)
  IN  IF ~need(r0, 4 + 1 + 1 + 2 + 8 + 8 + 16 + 4 + 4) THEN PayloadFail("payload too small")
      ELSE IF Take(r0, 4) /= PayloadMagic THEN PayloadFail("bad payload magic")
      ELSE
        LET version == read_u8(skip(r0, 4))
            key_id_len == read_u8(version.r)
            reserved == read_u16_le(key_id_len.r)
            created_ms == read_u64_le(reserved.r)
            expires_ms == read_u64_le(created_ms.r)
            r1 == expires_ms.r
            pack_id == Take(r1, 16)
            env_count == read_u32_le(skip(r1, 16))
            step_count == read_u32_le(env_count.r)
            r2 == step_count.r
            key_id == Take(r2, key_id_len.v)
            env == DecodeEnv(skip(r2, key_id_len.v), env_count.v, <<>>)
            steps == DecodeSteps(env.r, version.v, step_count.v, 0, <<>>)
        IN  IF ~version.ok \/ ~key_id_len.ok \/ ~reserved.ok
            THEN PayloadFail("payload header truncated")
            ELSE IF version.v /= 1 /\ version.v /= 2
            THEN PayloadFail("unsupported payload version")
            ELSE IF ~created_ms.ok \/ ~expires_ms.ok
            THEN PayloadFail("payload header truncated")
            ELSE IF ~need(r1, 16) THEN PayloadFail("payload header truncated")
            ELSE IF ~env_count.ok \/ ~step_count.ok
            THEN PayloadFail("payload header truncated")
            ELSE IF ~need(r2, key_id_len.v) THEN PayloadFail("payload key_id truncated")
            ELSE IF ~env.ok THEN PayloadFail("env truncated")
            ELSE IF TooManySteps(step_count.v)
            THEN PayloadFail("too many steps")
            ELSE IF ~steps.ok THEN PayloadFail(steps.error)
            ELSE IF Left(steps.r) /= 0 THEN PayloadFail("payload has trailing bytes")
            ELSE [ok |-> TRUE, error |-> "",
                  pack |-> [key_id |-> key_id,
                            created_ms |-> created_ms.v,
                            expires_ms |-> expires_ms.v,
                            pack_id |-> pack_id,
                            env |-> env.env,
                            steps |-> steps.steps]]

\* every order in which the keys of S can come out of the map
Orders(S) ==
  { o \in [1..Cardinality(S) -> S] : \A x \in S : \E i \in 1..Cardinality(S) : o[i] = x }

\* the sender builds the payload of a pack
EncodePayload(packs) ==
  /\ codec.pc = "idle"
  /\ \E p \in packs : \E order \in Orders(DOMAIN p.env) :
       codec' = [pc |-> "encoded", kind |-> "payload", input |-> p,
                 enc |-> encode_payload(p, order), dec |-> <<>>]
  /\ UNCHANGED <<server, run, reg>>

\* payload bytes arrive that encode_payload did not build
ReceivePayload(inputs) ==
  /\ codec.pc = "idle"
  /\ \E bytes \in inputs :
       codec' = [pc |-> "encoded", kind |-> "raw", input |-> bytes,
                 enc |-> Wrote(bytes), dec |-> <<>>]
  /\ UNCHANGED <<server, run, reg>>

\* the receiver decodes the payload it was sent
DecodePayload ==
  /\ codec.pc = "encoded"
  /\ codec.kind \in {"payload", "raw"}
  /\ codec.enc.ok
  /\ codec' = [codec EXCEPT !.pc = "decoded",
                            !.dec = decode_payload_bytes(codec.enc.bytes)]
  /\ UNCHANGED <<server, run, reg>>

\* the sender frames a payload and its signature
EncodeEnvelope(envelopes) ==
  /\ codec.pc = "idle"
  /\ \E e \in envelopes :
       codec' = [pc |-> "encoded", kind |-> "envelope", input |-> e,
                 enc |-> encode_envelope(e), dec |-> <<>>]
  /\ UNCHANGED <<server, run, reg>>

\* bytes arrive that no encoder of this program built
ReceiveBytes(inputs) ==
  /\ codec.pc = "idle"
  /\ \E bytes \in inputs :
       codec' = [pc |-> "encoded", kind |-> "wire", input |-> bytes,
                 enc |-> Wrote(bytes), dec |-> <<>>]
  /\ UNCHANGED <<server, run, reg>>

\* the receiver unframes what it was sent
DecodeEnvelope ==
  /\ codec.pc = "encoded"
  /\ codec.kind \in {"envelope", "wire"}
  /\ codec.enc.ok
  /\ \E survives \in BOOLEAN :
       codec' = [codec EXCEPT !.pc = "decoded",
                              !.dec = decode_envelope_bytes(codec.enc.bytes, survives)]
  /\ UNCHANGED <<server, run, reg>>

----------------------------------------------------------------------------
(* compile_script (action_pack.cpp).  A script is the sequence of its      *)
(* lines, a line the sequence of tokens split_ws finds in the trimmed      *)
(* line, a token a nonempty sequence of bytes.                             *)

OpCd == <<99, 100>>
OpTimeout == <<116, 105, 109, 101, 111, 117, 116>>
OpEnv == <<101, 110, 118>>
OpPut == <<112, 117, 116>>
OpExec == <<101, 120, 101, 99>>

IsDigit(b) == b >= 48 /\ b <= 57

\* the decimal digits of a natural number, most significant first
RECURSIVE Digits(_)
Digits(n) == IF n < 10 THEN <<n>> ELSE Append(Digits(n \div 10), n % 10)

\* the natural number a sequence of decimal digits reads as
RECURSIVE FromDigits(_)
FromDigits(ds) ==
  IF Len(ds) = 1 THEN ds[1]
  ELSE 10 * FromDigits(SubSeq(ds, 1, Len(ds) - 1)) + ds[Len(ds)]

\* the digits of a token without the leading zeros (one zero stays)
RECURSIVE Significant(_)
Significant(ds) ==
  IF Len(ds) > 1 /\ ds[1] = 0 THEN Significant(Tail(ds)) ELSE ds

\* ds < es for two digit sequences of the same length
RECURSIVE DigitsBelow(_, _)
DigitsBelow(ds, es) ==
  IF ds = <<>> THEN FALSE
  ELSE IF ds[1] /= es[1] THEN ds[1] < es[1]
  ELSE DigitsBelow(Tail(ds), Tail(es))

\* static_cast<uint32_t>(min(v, 0xffffffff)) for the number the digits read
\* as: the number itself up to 2^31 - 1, the number less 2^32 (the same 32
\* bits) up to 2^32 - 1, and 0xffffffff (-1 here) above; `erange' when the
\* number does not fit an unsigned long of 64 bits
ClampDigits(ds) ==
  LET sig == Significant(ds) IN
  IF Len(sig) < 10 \/ (Len(sig) = 10 /\ DigitsBelow(sig, <<2, 1, 4, 7, 4, 8, 3, 6, 4, 8>>))
  THEN [erange |-> FALSE, v |-> FromDigits(sig)]
  ELSE IF Len(sig) = 10 /\ DigitsBelow(sig, <<4, 2, 9, 4, 9, 6, 7, 2, 9, 6>>)
  THEN [erange |-> FALSE,
        v |-> 10 * (FromDigits(SubSeq(sig, 1, 9)) - 429496728) + (sig[10] - 16)]
  ELSE IF Len(sig) < 20
          \/ (Len(sig) = 20
              /\ DigitsBelow(sig, <<1, 8, 4, 4, 6, 7, 4, 4, 0, 7, 3, 7, 0, 9, 5, 5, 1, 6, 1, 6>>))
  THEN [erange |-> FALSE, v |-> -1]
  ELSE [erange |-> TRUE, v |-> -1]

\* strtoul(tok, &end, 10) followed by the test `errno != 0 || *end != 0' and
\* the clamp to 32 bits: an optional sign, then digits to the end of the
\* token; a negative number is negated as an unsigned long, which is above
\* 0xffffffff unless it is 0
strtoul(tok) ==
  LET signed == tok[1] = 43 \/ tok[1] = 45
      body == IF signed THEN Tail(tok) ELSE tok
      ds == [i \in 1..Len(body) |-> body[i] - 48]
  IN  IF body = <<>> \/ \E i \in 1..Len(body) : ~IsDigit(body[i])
      THEN [ok |-> FALSE, v |-> 0]
      ELSE LET c == ClampDigits(ds) IN
           IF c.erange THEN [ok |-> FALSE, v |-> 0]
           ELSE IF tok[1] = 45 /\ c.v /= 0 THEN [ok |-> TRUE, v |-> -1]
           ELSE [ok |-> TRUE, v |-> c.v]

\* std::string::find('='): the index of the first '=', 0 when there is none
RECURSIVE FindEq(_, _)
FindEq(tok, i) ==
  IF i > Len(tok) THEN 0 ELSE IF tok[i] = 61 THEN i ELSE FindEq(tok, i + 1)

CompileFail(e, detail) == [ok |-> FALSE, error |-> e, detail |-> detail, pack |-> <<>>]

\* the loop over the lines of compile_script from line i on; `files' are
\* the source files that can be opened and `fault' what goes wrong reading
\* them
RECURSIVE CompileLines(_, _, _, _, _, _, _, _, _)
CompileLines(script, i, cwd, timeout_ms, total, env, steps, files, fault) ==
  IF i > Len(script)
  THEN IF steps = <<>> THEN CompileFail("script has no steps", <<>>)
       ELSE [ok |-> TRUE, error |-> "", detail |-> <<>>,
             pack |-> [env |-> env, steps |-> steps]]
  ELSE
    LET tokens == script[i]
        next(c, t, w, e, ss) == CompileLines(script, i + 1, c, t, w, e, ss, files, fault)
        same == next(cwd, timeout_ms, total, env, steps)
    IN  IF tokens = <<>> THEN same                      \* blank
        ELSE IF tokens[1][1] = 35 THEN same             \* '#'
        ELSE IF tokens[1] = OpCd
        THEN IF Len(tokens) /= 2 THEN CompileFail("cd requires exactly 1 arg", <<>>)
             ELSE next(tokens[2], timeout_ms, total, env, steps)
        ELSE IF tokens[1] = OpTimeout
        THEN IF Len(tokens) /= 2 THEN CompileFail("timeout requires exactly 1 arg", <<>>)
             ELSE LET v == strtoul(tokens[2]) IN
                  IF ~v.ok THEN CompileFail("invalid timeout value", <<>>)
                  ELSE next(cwd, v.v, total, env, steps)
        ELSE IF tokens[1] = OpEnv
        THEN IF Len(tokens) /= 2
             THEN CompileFail("env requires exactly 1 arg (KEY=VALUE)", <<>>)
             ELSE LET eq == FindEq(tokens[2], 1) IN
                  IF eq = 0 \/ eq = 1 THEN CompileFail("env requires KEY=VALUE", <<>>)
                  ELSE next(cwd, timeout_ms, total,
                            EnvPut(env, SubSeq(tokens[2], 1, eq - 1),
                                   SubSeq(tokens[2], eq + 1, Len(tokens[2]))),
                            steps)
        ELSE IF tokens[1] = OpPut
        THEN IF Len(tokens) /= 3
             THEN CompileFail("put requires: put <dest_abs_path> @<src_path>", <<>>)
             ELSE LET dest == tokens[2]
                      src == tokens[3]
                      src_path == Tail(src)
                  IN  IF dest[1] /= 47
                      THEN CompileFail("put destination must be an absolute path", <<>>)
                      ELSE IF Len(src) < 2 \/ src[1] /= 64
                      THEN CompileFail("put source must be @<path>", <<>>)
                      ELSE IF src_path \notin DOMAIN files
                      THEN CompileFail("put unable to open source: ", src_path)
                      ELSE IF fault = "stat"
                      THEN CompileFail("put unable to stat source: ", src_path)
                      ELSE IF total + Len(files[src_path]) > kMaxTotalWriteBytes
                      THEN CompileFail("total embedded write bytes too large", <<>>)
                      ELSE IF Len(files[src_path]) > 0 /\ fault = "read"
                      THEN CompileFail("put read failed: ", src_path)
                      ELSE next(cwd, timeout_ms, total + Len(files[src_path]), env,
                                Append(steps, WriteFileStep(dest, files[src_path], 420)))
        ELSE IF tokens[1] = OpExec
        THEN IF Len(tokens) < 2 THEN CompileFail("exec requires at least 1 arg", <<>>)
             ELSE next(cwd, timeout_ms, total, env,
                       Append(steps, ExecStep(Tail(tokens), cwd, timeout_ms)))
        ELSE CompileFail("unknown instruction: ", tokens[1])

\* compile_script: the header fields, then the lines
compile_script(script, key_id, now_ms, ttl_ms, pack_id, files, fault) ==
  LET c == CompileLines(script, 1, <<>>, 0, 0, <<>>, <<>>, files, fault) IN
    IF ~c.ok THEN c
    ELSE [c EXCEPT !.pack = [key_id |-> key_id,
                             created_ms |-> now_ms,
                             expires_ms |-> IF ttl_ms /= 0 THEN now_ms + ttl_ms ELSE 0,
                             pack_id |-> pack_id,
                             env |-> c.pack.env,
                             steps |-> c.pack.steps]]

\* the sender compiles a script
CompileScript(scripts, sources) ==
  /\ codec.pc = "idle"
  /\ \E script \in scripts : \E files \in sources : \E fault \in {"none", "stat", "read"} :
     \E ttl_ms \in {0, 1} :
       codec' = [pc |-> "compiled", kind |-> "script",
                 input |-> [script |-> script, files |-> files, fault |-> fault],
                 enc |-> compile_script(script, <<107>>, 0, ttl_ms, [i \in 1..16 |-> 0],
                                        files, fault),
                 dec |-> <<>>]
  /\ UNCHANGED <<server, run, reg>>

----------------------------------------------------------------------------
(* run_capture (process.cpp).  Time is in milliseconds since the call's    *)
(* `start`; a stream's bytes are counted, not kept.                        *)

\* int poll_timeout = 50
PollMs == 50

\* the bytes a child can have pending in one pipe
MaxBuf == 2

\* the longest a call is followed, in milliseconds
MaxRunMs == 200

Min(a, b) == IF a < b THEN a ELSE b

\* CaptureResult, with the defaults of process.h
CaptureResult ==
  [ok |-> FALSE, exit_code |-> 1, timed_out |-> FALSE, error |-> "", out |-> 0, err |-> 0]

\* no child process
NoChild ==
  [ state |-> "none",      \* none, running, zombie (exited, not waited for), reaped
    lives |-> "exits",     \* exits on its own, or runs forever
    status |-> 0,          \* the exit code; -1 when ended by a signal
    out_w |-> FALSE,       \* some process holds the write end of the stdout pipe
    err_w |-> FALSE,
    out_buf |-> 0,         \* bytes written to the stdout pipe and not yet read
    err_buf |-> 0,
    killed |-> FALSE,      \* run_capture's SIGKILL ended it
    kill_after_reap |-> FALSE ]   \* kill(pid) was called after the pid was reaped

IdleRun ==
  [ pc |-> "idle", timeout_ms |-> 0, max_bytes |-> 0, elapsed |-> 0,
    out_open |-> FALSE, err_open |-> FALSE, exited |-> FALSE,
    res |-> CaptureResult, child |-> NoChild ]

\* res.ok = (res.exit_code == 0) && !res.timed_out; return res
Return(r) ==
  [r EXCEPT !.pc = "done", !.res.ok = (r.res.exit_code = 0) /\ ~r.res.timed_out]

\* WIFEXITED(status) ? WEXITSTATUS(status) : 1
ExitCodeOf(status) == IF status >= 0 THEN status ELSE 1

\* run_capture up to the poll loop: pipes, posix_spawnp, start = now_ms()
RunStart(timeouts, sizes) ==
  /\ run.pc = "idle"
  /\ \E t \in timeouts, mb \in sizes, lives \in { "exits", "forever" },
        fault \in { "none", "pipe", "spawn" } :
       run' =
         IF fault = "pipe"
         THEN [run EXCEPT !.pc = "done", !.timeout_ms = t, !.max_bytes = mb,
                          !.res.error = "failed to create pipes"]
         ELSE IF fault = "spawn"
         THEN [run EXCEPT !.pc = "done", !.timeout_ms = t, !.max_bytes = mb,
                          !.res.error = "failed to spawn command"]
         ELSE [run EXCEPT !.pc = "loop", !.timeout_ms = t, !.max_bytes = mb,
                          !.out_open = TRUE, !.err_open = TRUE,
                          !.child = [NoChild EXCEPT !.state = "running", !.lives = lives,
                                                    !.out_w = TRUE, !.err_w = TRUE]]
  /\ UNCHANGED <<server, codec, reg>>

\* while (out_open || err_open), and the timeout test at the top of its body
LoopTest ==
  /\ run.pc = "loop"
  /\ run' =
       IF ~(run.out_open \/ run.err_open) THEN [run EXCEPT !.pc = "after"]
       ELSE IF run.timeout_ms /= 0 /\ run.elapsed >= run.timeout_ms
         THEN [run EXCEPT !.pc = "after", !.res.timed_out = TRUE]
       ELSE [run EXCEPT !.pc = "poll"]
  /\ UNCHANGED <<server, codec, reg>>

\* drain appending all it reads
DrainedUncapped(have, buf, max_bytes) == have + buf

\* drain: the bytes kept of a stream that had `have` and gets `buf` more
Drained(have, buf, max_bytes) == IF have < max_bytes THEN Min(max_bytes, have + buf) ELSE have

\* poll, drain both streams, waitpid(WNOHANG)
Poll ==
  /\ run.pc = "poll"
  /\ LET poll_timeout ==
           IF run.timeout_ms /= 0 THEN Min(run.timeout_ms - run.elapsed, PollMs) ELSE PollMs
         reap == ~run.exited /\ run.child.state = "zombie"
     IN run' =
          [run EXCEPT
             !.pc = "loop",
             !.elapsed = Min(run.elapsed + poll_timeout, MaxRunMs),
             !.res.out = IF run.out_open THEN Drained(@, run.child.out_buf, run.max_bytes) ELSE @,
             !.res.err = IF run.err_open THEN Drained(@, run.child.err_buf, run.max_bytes) ELSE @,
             !.child.out_buf = IF run.out_open THEN 0 ELSE @,
             !.child.err_buf = IF run.err_open THEN 0 ELSE @,
             !.out_open = @ /\ run.child.out_w,      \* read() == 0: end of file
             !.err_open = @ /\ run.child.err_w,
             !.exited = @ \/ reap,
             !.res.exit_code = IF reap THEN ExitCodeOf(run.child.status) ELSE @,
             !.child.state = IF reap THEN "reaped" ELSE @]
  /\ UNCHANGED <<server, codec, reg>>

\* after the loop: on a timeout close the pipes and kill(pid, SIGKILL);
\* otherwise wait for the child unless it was already reaped
AfterLoop ==
  /\ run.pc = "after"
  /\ run' =
       IF run.res.timed_out
       THEN [run EXCEPT
               !.pc = "reap", !.out_open = FALSE, !.err_open = FALSE,
               !.child.killed = @ \/ run.child.state = "running",
               !.child.kill_after_reap = run.child.state = "reaped",
               !.child.status = IF run.child.state = "running" THEN -1 ELSE @,
               !.child.state = IF run.child.state = "running" THEN "zombie" ELSE @]
       ELSE IF ~run.exited THEN [run EXCEPT !.pc = "wait"]
       ELSE Return(run)
  /\ UNCHANGED <<server, codec, reg>>

\* (void)waitpid(pid, &status, 0) after the kill
ReapKilled ==
  /\ run.pc = "reap"
  /\ run' = Return([run EXCEPT !.child.state = "reaped"])
  /\ UNCHANGED <<server, codec, reg>>

\* waitpid(pid, &status, 0) of a child that was not reaped in the loop: blocks
\* until the child has ended
WaitExit ==
  /\ run.pc = "wait"
  /\ run.child.state = "zombie"
  /\ run' = Return([run EXCEPT !.res.exit_code = ExitCodeOf(run.child.status),
                               !.child.state = "reaped"])
  /\ UNCHANGED <<server, codec, reg>>

\* the steps of the thread that called run_capture
RunCapture == LoopTest \/ Poll \/ AfterLoop \/ ReapKilled \/ WaitExit

\* the child (or a descendant) writes a byte to a stream it holds
ChildWrite ==
  /\ run.pc \notin { "idle", "done" }
  /\ \/ /\ run.child.out_w /\ run.child.out_buf < MaxBuf
        /\ run' = [run EXCEPT !.child.out_buf = @ + 1]
     \/ /\ run.child.err_w /\ run.child.err_buf < MaxBuf
        /\ run' = [run EXCEPT !.child.err_buf = @ + 1]
  /\ UNCHANGED <<server, codec, reg>>

\* the last holder of a stream's write end closes it
ChildClose ==
  /\ run.pc \notin { "idle", "done" }
  /\ \/ run.child.out_w /\ run' = [run EXCEPT !.child.out_w = FALSE]
     \/ run.child.err_w /\ run' = [run EXCEPT !.child.err_w = FALSE]
  /\ UNCHANGED <<server, codec, reg>>

\* the child exits on its own; its streams close unless a descendant holds them
ChildExit ==
  /\ run.pc \notin { "idle", "done" }
  /\ run.child.state = "running"
  /\ run.child.lives = "exits"
  /\ \E code \in { 0, 3 }, held \in BOOLEAN :
       run' = [run EXCEPT !.child.state = "zombie", !.child.status = code,
                          !.child.out_w = @ /\ held, !.child.err_w = @ /\ held]
  /\ UNCHANGED <<server, codec, reg>>

----------------------------------------------------------------------------
(* The receiver directory (action_pack_cli.cpp): the file                  *)
(* action_pack_receivers, one "name addr" line per receiver, its lock file, *)
(* and the processes running `register`.                                   *)

\* receiver names, in the order of std::map<std::string, ...>
RegNames == <<"a", "b", "c">>

RegAddrs == { "h1:1", "h2:2" }

\* the processes that run `seq action-pack register`
RegProcs == { 1, 2 }

\* a process that is not running
IdleProc == [pc |-> "idle", name |-> "", addr |-> "", rs |-> <<>>, exit |-> -1]

\* no directory file yet, the lock free, no process running
IdleReg == [file |-> <<>>, lock |-> 0, proc |-> [p \in RegProcs |-> IdleProc]]

\* load_receivers: the map of the lines of the file, a later line of a name
\* replacing an earlier one
RECURSIVE MapOfLines(_, _)
MapOfLines(lines, out) ==
  IF lines = <<>> THEN out
  ELSE LET l == Head(lines)
           name == l[1]
       IN MapOfLines(Tail(lines),
                     [n \in DOMAIN out \cup {name} |-> IF n = name THEN l[2] ELSE out[n]])

load_receivers(file) == MapOfLines(file, <<>>)

\* save_receivers: one line per entry of the map, in the order of the keys
LinesOfMap(rs) ==
  LET present == SelectSeq(RegNames, LAMBDA n : n \in DOMAIN rs)
  IN [i \in 1..Len(present) |-> <<present[i], rs[present[i]]>>]

\* `register name addr` is started
RegisterStart(p) ==
  /\ reg.proc[p].pc \in { "idle", "done" }
  /\ \E i \in DOMAIN RegNames, a \in RegAddrs :
       reg' = [reg EXCEPT !.proc[p] = [IdleProc EXCEPT !.pc = "load", !.name = RegNames[i],
                                                      !.addr = a]]
  /\ UNCHANGED <<server, run, codec>>

\* cmd_register_receiver: rs = load_receivers(); rs[name] = addr
RegisterLoad(p) ==
  /\ reg.proc[p].pc = "load"
  /\ LET rs == load_receivers(reg.file)
         name == reg.proc[p].name
     IN reg' = [reg EXCEPT
                  !.proc[p].pc = "lock",
                  !.proc[p].rs = [n \in DOMAIN rs \cup {name} |->
                                     IF n = name THEN reg.proc[p].addr ELSE rs[n]]]
  /\ UNCHANGED <<server, run, codec>>

\* save_receivers: FileLock lock(path + ".lock"); flock waits for the holder
RegisterLock(p) ==
  /\ reg.proc[p].pc = "lock"
  /\ \/ /\ reg.lock = 0
        /\ reg' = [reg EXCEPT !.lock = p, !.proc[p].pc = "write"]
     \/ reg' = [reg EXCEPT !.proc[p].pc = "done", !.proc[p].exit = 1]   \* open or flock failed
  /\ UNCHANGED <<server, run, codec>>

\* save_receivers holding the lock: write_text_atomic_0600 renames a temp file
\* over the directory file; the lock is released on return
RegisterSave(p) ==
  /\ reg.proc[p].pc = "write"
  /\ reg.lock = p
  /\ \E ok \in BOOLEAN :
       reg' = [reg EXCEPT
                 !.file = IF ok THEN LinesOfMap(reg.proc[p].rs) ELSE @,
                 !.lock = 0,
                 !.proc[p].pc = "done",
                 !.proc[p].exit = IF ok THEN 0 ELSE 1]
  /\ UNCHANGED <<server, run, codec>>

NextRegister ==
  \E p \in RegProcs :
    \/ RegisterStart(p)
    \/ RegisterLoad(p)
    \/ RegisterLock(p)
    \/ RegisterSave(p)

----------------------------------------------------------------------------
(* Helpers of handle_pack.                                                 *)

MappedNames ==
  { "git", "make", "pwd", "echo", "ls", "rm", "mkdir", "bash", "zsh",
    "python3", "xcodebuild", "clang", "clang++" }

\* resolve_argv's kMap
kMap ==
  [ n \in MappedNames |->
      IF n \in { "pwd", "echo", "ls", "rm", "mkdir", "bash", "zsh" }
      THEN Path(TRUE, <<"bin", n>>)
      ELSE Path(TRUE, <<"usr", "bin", n>>) ]

\* resolve_argv: a known short name in argv[0] becomes its absolute path
resolve_argv(argv) ==
  IF argv = <<>> THEN <<>>
  ELSE IF ~argv[1].abs /\ Len(argv[1].c) = 1 /\ argv[1].c[1] \in MappedNames
       THEN [argv EXCEPT ![1] = kMap[argv[1].c[1]]]
       ELSE argv

\* splice the home directory in place of every "$HOME" / "${HOME}" component
RECURSIVE ReplaceHome(_)
ReplaceHome(c) ==
  IF c = <<>> THEN <<>>
  ELSE IF Head(c) \in { "$HOME", "${HOME}" } THEN Home \o ReplaceHome(Tail(c))
  ELSE <<Head(c)>> \o ReplaceHome(Tail(c))

\* expand_vars: a leading "~" or "~/", then "${HOME}" and "$HOME"
expand_vars(p) ==
  IF p = EmptyStr THEN p
  ELSE IF ~p.abs /\ Head(p.c) = "~" THEN Path(TRUE, Home \o ReplaceHome(Tail(p.c)))
  ELSE IF ~p.abs /\ Head(p.c) \in { "$HOME", "${HOME}" } THEN Path(TRUE, ReplaceHome(p.c))
  ELSE Path(p.abs, ReplaceHome(p.c))

\* is_denied_env_key
is_denied_env_key(k) ==
  \/ StartsWith(k, <<"D", "Y", "L", "D", "_">>)
  \/ StartsWith(k, <<"L", "D", "_">>)
  \/ k = <<"D", "Y", "L", "D", "_", "I", "N", "S", "E", "R", "T", "_",
           "L", "I", "B", "R", "A", "R", "I", "E", "S">>
  \/ k = <<"L", "D", "_", "P", "R", "E", "L", "O", "A", "D">>

\* const ServerState::KeyPolicy* policy = nullptr
NoPolicy == [null |-> TRUE]

\* cmd_allowed's built-in list
kAllowed ==
  { Path(TRUE, <<"usr", "bin", n>>) :
      n \in { "git", "make", "python3", "xcodebuild", "clang", "clang++", "xcrun",
              "codesign", "sw_vers", "uname", "wc", "sed", "tee" } }
  \cup { Path(TRUE, <<"bin", n>>) :
      n \in { "bash", "zsh", "pwd", "echo", "ls", "rm", "mkdir" } }

\* cmd_allowed
cmd_allowed(cmd, o, policy, written_canon_paths, files) ==
  IF policy /= NoPolicy THEN
    IF cmd \in policy.allowed_cmds THEN TRUE
    ELSE IF policy.allow_root_scripts /\ o.action_pack_root_real /= EmptyStr THEN
      IF cmd \in written_canon_paths THEN FALSE
      ELSE within_root(cmd, o.action_pack_root_real) /\ StatRegExec(files, cmd)
    ELSE FALSE
  ELSE
    IF cmd \in kAllowed THEN TRUE
    ELSE IF o.action_pack_root_real /= EmptyStr THEN
      IF cmd \in written_canon_paths THEN FALSE
      ELSE within_root(cmd, o.action_pack_root_real) /\ StatRegExec(files, cmd)
    ELSE FALSE

\* failures of the file system calls of safe_write_file that do not depend on
\* the arguments
WriteFaults == { "none", "mkstemp", "fstat", "write", "rename" }

\* tmp: the directory mkstemp created the temp file in, "" when not reached
WriteErr(e) == [ok |-> FALSE, error |-> e, canon |-> EmptyStr, mode |-> 0, tmp |-> EmptyStr]

\* ::lstat(canon) == 0 && S_ISDIR: the last component is not followed
LstatIsDir(files, canon) ==
  LET base == Last(canon.c)
      dst == Append(DropLast(canon.c), base)
  IN \/ base \in { ".", ".." }
     \/ dst \in Dirs /\ dst \notin DOMAIN Symlinks

\* the mask keeping the setuid, setgid and sticky bits: mode & 07777
EffectiveModeKeepSpecial(mode) ==
  LET m == mode % 4096 IN IF m = 0 THEN DefaultMode ELSE m

\* the mode safe_write_file applies: (mode & 0777) & ~07000, 0644 when 0
EffectiveMode(mode) ==
  LET m == mode % (ModeMask + 1) IN IF m = 0 THEN DefaultMode ELSE m

\* the gate without the test
ExecWriteForbiddenNever(allow_exec_writes, m) == FALSE

\* !allow_exec_writes && (m & 0111u)
ExecWriteForbidden(allow_exec_writes, m) == ~allow_exec_writes /\ HasExecBit(m)

\* safe_write_file, up to the rename: the result, the canonical destination
\* and the mode the file gets
safe_write_file(o, allow_exec_writes, path, mode, files, fault) ==
  IF path = EmptyStr \/ ~path.abs THEN WriteErr("path must be absolute")
  ELSE IF o.action_pack_root_real = EmptyStr THEN WriteErr("write requires --action-pack-root")
  ELSE IF Len(path.c) <= 1 THEN WriteErr("bad path")
  ELSE
    LET parent == Path(TRUE, DropLast(path.c))
        base == Last(path.c)
        parent_rp == realpath_str(files, parent)
        canon == Path(TRUE, Append(parent_rp.c, base))
        m == EffectiveMode(mode)
    IN IF base = "" THEN WriteErr("bad filename")
       ELSE IF parent_rp = EmptyStr \/ ~within_root(parent_rp, o.action_pack_root_real)
         THEN WriteErr("bad parent dir")
       ELSE IF ~within_root(canon, o.action_pack_root_real) THEN WriteErr("path outside root")
       ELSE IF ExecWriteForbidden(allow_exec_writes, m)
         THEN WriteErr("executable writes forbidden")
       ELSE IF fault = "mkstemp" \/ parent_rp.c \notin Dirs   \* ENOTDIR
         THEN WriteErr("mkstemp failed")
       ELSE IF fault = "fstat"
         THEN [WriteErr("temp is not a regular file") EXCEPT !.tmp = parent_rp]
       ELSE IF fault = "write" THEN [WriteErr("write failed") EXCEPT !.tmp = parent_rp]
       ELSE IF LstatIsDir(files, canon)
         THEN [WriteErr("destination is a directory") EXCEPT !.tmp = parent_rp]
       ELSE IF fault = "rename" THEN [WriteErr("rename failed") EXCEPT !.tmp = parent_rp]
       ELSE [ok |-> TRUE, error |-> "", canon |-> canon, mode |-> m, tmp |-> parent_rp]

\* the temp file mkstemp creates in a directory, ".ap_tmp.XXXXXX"
TempFile(dir) == Append(dir.c, ".ap_tmp")

\* safe_write_file returning without the unlink
AfterUnlinkKept(files, tmp) == files

\* ::unlink(tmp_path)
AfterUnlink(files, tmp) == [f \in DOMAIN files \ {tmp} |-> files[f]]

\* the regular files after safe_write_file returned r: mkstemp created the
\* temp file with mode 0600 when it was reached; rename moved it onto the
\* destination with the mode fchmod gave it, or the failure path unlinked it
FilesAfterWrite(files, r) ==
  IF r.tmp = EmptyStr THEN files
  ELSE
    LET tmp == TempFile(r.tmp)
        made == [f \in DOMAIN files \cup {tmp} |-> IF f = tmp THEN 384 ELSE files[f]]
    IN  IF r.ok
        THEN [f \in (DOMAIN made \ {tmp}) \cup {r.canon.c} |->
                IF f = r.canon.c THEN r.mode ELSE made[f]]
        ELSE AfterUnlink(made, tmp)

StepErr(e) == [err |-> e, argv |-> <<>>, cwd |-> EmptyStr]

\* handle_pack's last gate before run_capture
GateCmd(cmd, argv, cwd, o, policy, written_canon_paths, files) ==
  IF cmd_allowed(cmd, o, policy, written_canon_paths, files)
  THEN [err |-> "", argv |-> argv, cwd |-> cwd]
  ELSE StepErr("cmd_not_allowed")

\* handle_pack, an ExecStep up to run_capture: the error code of the step, or
\* the argv and cwd it hands to run_capture
ExecPlan(o, policy, written_canon_paths, files, step) ==
  IF step.argv = <<>> THEN StepErr("empty argv")
  ELSE
    LET resolved == resolve_argv(step.argv)
        argv == [j \in DOMAIN resolved |-> expand_vars(resolved[j])]
        cwd0 == expand_vars(IF step.cwd = EmptyStr THEN o.action_pack_root ELSE step.cwd)
        rp == realpath_str(files, cwd0)
        cwd == IF cwd0 /= EmptyStr THEN rp ELSE cwd0
        cmd == argv[1]
    IN IF cwd0 /= EmptyStr /\ rp = EmptyStr THEN StepErr("bad_cwd")
       ELSE IF cwd0 /= EmptyStr /\ ~within_root(rp, o.action_pack_root_real)
         THEN StepErr("cwd_outside_root")
       ELSE IF cmd /= EmptyStr /\ ~cmd.abs THEN
         IF Len(cmd.c) > 1 THEN        \* cmd.find('/') != npos
           IF cwd = EmptyStr \/ o.action_pack_root_real = EmptyStr
           THEN StepErr("relative_cmd_requires_root")
           ELSE LET joined == Path(TRUE, cwd.c \o cmd.c)
                    rp2 == realpath_str(files, joined)
                IN IF rp2 = EmptyStr THEN StepErr("bad_cmd_path")
                   ELSE IF ~within_root(rp2, o.action_pack_root_real)
                     THEN StepErr("cmd_outside_root")
                   ELSE GateCmd(rp2, [argv EXCEPT ![1] = rp2], cwd, o, policy,
                                written_canon_paths, files)
         ELSE StepErr("cmd_not_allowed")
       ELSE GateCmd(cmd, argv, cwd, o, policy, written_canon_paths, files)

\* the env loop without its allowed_env test
EnvAddNoAllowlist(policy, env) ==
  [k \in { k \in DOMAIN env : ~is_denied_env_key(k) } |-> env[k]]

\* handle_pack: the pack.env entries forwarded to every exec step
EnvAdd(policy, env) ==
  LET keep == { k \in DOMAIN env :
                  /\ (policy /= NoPolicy => k \in policy.allowed_env)
                  /\ ~is_denied_env_key(k) }
  IN [k \in keep |-> env[k]]

\* build_envp: the receiver's own environment, overridden by `add`
build_envp(base, add) ==
  [k \in DOMAIN base \cup DOMAIN add |-> IF k \in DOMAIN add THEN add[k] ELSE base[k]]

\* run_capture: the environment posix_spawnp gets
SpawnEnv(base, env_add) ==
  IF DOMAIN env_add = {} THEN base ELSE build_envp(base, env_add)

\* posix_spawnp of an absolute path: the file must be a regular executable
CanSpawn(files, argv0) == StatRegExec(files, argv0)

----------------------------------------------------------------------------
(* Packs, payloads, signatures, envelopes.                                 *)

HexDigits == <<"0", "1", "2", "3", "4", "5", "6", "7", "8", "9",
               "a", "b", "c", "d", "e", "f">>

\* hex_pack_id
hex_pack_id(id) ==
  [ j \in 1..(2 * Len(id)) |->
      LET b == id[(j + 1) \div 2]
      IN IF j % 2 = 1 THEN HexDigits[((b \div 16) % 16) + 1] ELSE HexDigits[(b % 16) + 1] ]

\* a pack_id whose last byte is b
PackId(b) == [ i \in 1..PackIdBytes |-> IF i = PackIdBytes THEN b ELSE 0 ]

Pack(key_id, pack_id, created_ms, expires_ms, env, steps) ==
  [ key_id |-> key_id, pack_id |-> pack_id, created_ms |-> created_ms,
    expires_ms |-> expires_ms, env |-> env, steps |-> steps ]

NoPack == [null |-> TRUE]

\* payload bytes that decode_payload accepts, and the Pack it decodes them to
Payload(pack) == [wire |-> "ok", pack |-> pack]

\* decode_payload
decode_payload(payload) ==
  IF payload.wire = "ok" THEN [ok |-> TRUE, pack |-> payload.pack]
  ELSE [ok |-> FALSE, pack |-> NoPack]

\* sign_p256: the signature the holder of key_id's private key makes
sign_p256(key_id, payload) == [by |-> key_id, over |-> payload, bits |-> "intact"]

\* the public key export_pubkey_p256 gives for key_id
PubKey(key_id) == [pub |-> key_id]

NoKey == [null |-> TRUE]

\* verify_p256: ECDSA P-256 over SHA-256
verify_p256(pub_b64, payload, signature) ==
  /\ signature.bits = "intact"
  /\ PubKey(signature.by) = pub_b64
  /\ signature.over = payload

\* envelope bytes on the wire; size is the number of bytes the peer sends
\* before it shuts its side down, here 12 of framing, one of payload and one
\* of signature
Wire(payload, signature) ==
  [framing |-> "ok", size |-> 12 + 1 + 1, payload |-> payload, signature |-> signature]

NoReq == [null |-> TRUE]

\* decode_envelope
decode_envelope(req) ==
  IF req.framing = "ok"
  THEN [ok |-> TRUE, payload |-> req.payload, signature |-> req.signature]
  ELSE [ok |-> FALSE]

\* what the sender CLI puts on the wire for a pack
Signed(pack) == Wire(Payload(pack), sign_p256(pack.key_id, Payload(pack)))

\* peer_allowed taking every address of 100.0.0.0/8 for a tailnet address
peer_allowedAnyCgnat(peer, o) ==
  \/ o.action_pack_allow_local /\ peer[1] = 127
  \/ o.action_pack_allow_tailscale /\ peer[1] = 100

\* peer_allowed
peer_allowed(peer, o) ==
  \/ o.action_pack_allow_local /\ peer[1] = 127
  \/ o.action_pack_allow_tailscale /\ peer[1] = 100 /\ peer[2] >= 64 /\ peer[2] <= 127

----------------------------------------------------------------------------
(* The receiver's state.                                                   *)

Conns == 1..NumConns

IdleConn ==
  [ pc |-> "idle", peer |-> <<0, 0>>, req |-> NoReq, env |-> NoReq, pack |-> NoPack,
    policy |-> NoPolicy, pub_b64 |-> NoKey, now |-> 0, resp |-> <<>>, i |-> 0,
    env_add |-> <<>>, written_canon_paths |-> {},
    tmp_dirs |-> {},        \* the directories this handler created a temp file in
    sender_exit |-> -1,     \* what send_to returned to the sender, -1 before it has
    boot |-> 0,             \* the run of the server that accepted this connection
    io_ok |-> TRUE,         \* no read of this handler failed or timed out
    recorded |-> FALSE,     \* this handler inserted its pack_id into the seen map
    after |-> {} ]          \* the connections already answered when this one arrived

SandboxRoot == Path(TRUE, <<"sb">>)

\* Options::action_pack_max_request_bytes, 4 MiB
DefaultMaxRequestBytes == 4194304

\* the settings as options.h has them: loopback and 100.64.0.0/10 allowed,
\* requests of up to 4 MiB
DefaultPeerFilter ==
  [allow_local |-> TRUE, allow_tailscale |-> TRUE, max_request_bytes |-> DefaultMaxRequestBytes]

\* serve_loop up to listen(): pubkeys and policy loaded, root resolved,
\* ConnLimiter constructed; the seen file is empty
InitFiltered(max_conns, policies, environs, filters) ==
  /\ \E n \in max_conns : \E f \in filters :
       /\ opts = [ action_pack_root |-> SandboxRoot,
                   action_pack_root_real |-> realpath_str(InitialFiles, SandboxRoot),
                   action_pack_allow_local |-> f.allow_local,
                   action_pack_allow_tailscale |-> f.allow_tailscale,
                   action_pack_max_request_bytes |-> f.max_request_bytes,
                   action_pack_max_conns |-> n ]
       /\ max_ = IF n > 1 THEN n ELSE 1          \* std::max(1, max)
  /\ \E pol \in policies :
       st = [ pubkeys_b64_by_id |-> [k \in {"k1", "k2"} |-> PubKey(k)],
              policy_by_id |-> IF pol = NoPolicy THEN <<>> ELSE [k \in {"k1"} |-> pol],
              have_policy |-> pol /= NoPolicy,
              seen_pack_expiry_by_hex |-> <<>>,
              seen_file |-> <<>> ]
  /\ environ \in environs
  /\ mu = 0
  /\ cur_ = 0
  /\ loop = [pc |-> "accept", client |-> 0, accepted |-> 0, boot |-> 0]
  /\ conn = [c \in Conns |-> IdleConn]
  /\ clock = 0
  /\ fs = InitialFiles
  /\ spawned = <<>>
  /\ run = IdleRun
  /\ codec = IdleCodec
  /\ reg = IdleReg

\* the same with the default peer filter
InitWith(max_conns, policies, environs) ==
  InitFiltered(max_conns, policies, environs, {DefaultPeerFilter})

ErrLine(detail) == [kind |-> "ERR", detail |-> detail]

\* a handler returns an ERR transcript
Reject(c, detail) ==
  conn' = [conn EXCEPT ![c].pc = "respond", ![c].resp = <<ErrLine(detail)>>]

----------------------------------------------------------------------------
(* serve_loop: the accept loop.                                            *)

\* the connections whose transcript has been written back
Answered == { d \in Conns : conn[d].pc \in {"closing", "closed"} }

\* accept() returns a client; a peer that is not allowed is closed at once
Accept(reqs, peers, n) ==
  /\ loop.pc = "accept"
  /\ loop.accepted < n
  /\ LET c == loop.accepted + 1 IN
     \E peer \in peers :
       IF peer_allowed(peer, opts)
       THEN \E req \in reqs :
              /\ conn' = [conn EXCEPT ![c].pc = "admitted", ![c].peer = peer, ![c].req = req,
                                        ![c].after = Answered, ![c].boot = loop.boot]
              /\ loop' = [loop EXCEPT !.pc = "acquire", !.client = c, !.accepted = c]
       ELSE /\ conn' = [conn EXCEPT ![c].pc = "refused", ![c].peer = peer]
            /\ loop' = [loop EXCEPT !.accepted = c]
  /\ UNCHANGED <<reg, codec, run, opts, st, mu, cur_, max_, clock, environ, fs, spawned>>

\* accept() fails with an errno other than EINTR: the loop breaks
AcceptError ==
  /\ loop.pc = "accept"
  /\ loop' = [loop EXCEPT !.pc = "stopped"]
  /\ UNCHANGED <<reg, codec, run, opts, st, mu, cur_, max_, conn, clock, environ, fs, spawned>>

\* acquire waiting for cur_ <= max_ instead of cur_ < max_
PermitFreeOffByOne(cur, max) == cur <= max

\* ConnLimiter::acquire's wait predicate
PermitFree(cur, max) == cur < max

\* ConnLimiter::acquire, then the handler thread starts with its ConnPermit
Acquire ==
  /\ loop.pc = "acquire"
  /\ PermitFree(cur_, max_)
  /\ cur_' = cur_ + 1
  /\ conn' = [conn EXCEPT ![loop.client].pc = "read"]
  /\ loop' = [loop EXCEPT !.pc = "accept", !.client = 0]
  /\ UNCHANGED <<reg, codec, run, opts, st, mu, max_, clock, environ, fs, spawned>>

----------------------------------------------------------------------------
(* The connection handler thread.                                          *)

\* sizeof(buf) of read_all_fd
ReadBuf == 8192

\* the size test of read_all_fd failing at the cap already
OverCapAtLimit(size, max_bytes) == size >= max_bytes

\* out->size() + n > max_bytes
OverCap(size, max_bytes) == size > max_bytes

\* the loop of read_all_fd with `have' bytes in out and `sent' bytes coming
\* before the end of file: each read returns what fits the buffer; io_ok is
\* FALSE when a read fails or times out instead
RECURSIVE read_all_fd(_, _, _, _)
read_all_fd(have, sent, max_bytes, io_ok) ==
  IF ~io_ok THEN FALSE
  ELSE IF have = sent THEN TRUE
  ELSE LET n == Min(ReadBuf, sent - have)
       IN  IF OverCap(have + n, max_bytes) THEN FALSE
           ELSE read_all_fd(have + n, sent, max_bytes, io_ok)

\* the handler reads the request; ERR read_failed when read_all_fd fails
ReadRequest(c) ==
  /\ conn[c].pc = "read"
  /\ \E io_ok \in BOOLEAN :
       IF read_all_fd(0, conn[c].req.size, opts.action_pack_max_request_bytes, io_ok)
       THEN conn' = [conn EXCEPT ![c].pc = "envelope", ![c].io_ok = io_ok]
       ELSE conn' = [conn EXCEPT ![c].pc = "respond", ![c].io_ok = io_ok,
                                 ![c].resp = <<ErrLine("read_failed")>>]
  /\ UNCHANGED <<reg, codec, run, opts, st, mu, cur_, max_, loop, clock, environ, fs, spawned>>

ParseEnvelope(c) ==
  /\ conn[c].pc = "envelope"
  /\ LET d == decode_envelope(conn[c].req) IN
       IF d.ok
       THEN conn' = [conn EXCEPT ![c].pc = "payload",
                                 ![c].env = [payload |-> d.payload, signature |-> d.signature]]
       ELSE Reject(c, "bad envelope")
  /\ UNCHANGED <<reg, codec, run, opts, st, mu, cur_, max_, loop, clock, environ, fs, spawned>>

ParsePayload(c) ==
  /\ conn[c].pc = "payload"
  /\ LET d == decode_payload(conn[c].env.payload) IN
       IF d.ok
       THEN conn' = [conn EXCEPT ![c].pc = "policy", ![c].pack = d.pack]
       ELSE Reject(c, "bad payload")
  /\ UNCHANGED <<reg, codec, run, opts, st, mu, cur_, max_, loop, clock, environ, fs, spawned>>

\* handle_pack going on to the key lookup without a policy
LookupPolicySkipped(c) ==
  /\ conn[c].pc = "policy"
  /\ conn' = [conn EXCEPT ![c].pc = "key"]
  /\ UNCHANGED <<reg, codec, run, opts, st, mu, cur_, max_, loop, clock, environ, fs, spawned>>

\* handle_pack looking the key up before the policy
LookupPolicyKeyFirst(c) ==
  /\ conn[c].pc = "policy"
  /\ mu = 0
  /\ IF conn[c].pack.key_id \notin DOMAIN st.pubkeys_b64_by_id
     THEN Reject(c, "unknown key_id: " \o conn[c].pack.key_id)
     ELSE IF st.have_policy /\ conn[c].pack.key_id \notin DOMAIN st.policy_by_id
     THEN Reject(c, "policy missing for key_id: " \o conn[c].pack.key_id)
     ELSE conn' = [conn EXCEPT ![c].pc = "key",
                               ![c].policy = IF st.have_policy
                                             THEN st.policy_by_id[conn[c].pack.key_id]
                                             ELSE @]
  /\ UNCHANGED <<reg, codec, run, opts, st, mu, cur_, max_, loop, clock, environ, fs, spawned>>

LookupPolicy(c) ==
  /\ conn[c].pc = "policy"
  /\ IF st.have_policy
     THEN /\ mu = 0                       \* lock_guard over the lookup
          /\ IF conn[c].pack.key_id \in DOMAIN st.policy_by_id
             THEN conn' = [conn EXCEPT ![c].pc = "key",
                                       ![c].policy = st.policy_by_id[conn[c].pack.key_id]]
             ELSE Reject(c, "policy missing for key_id: " \o conn[c].pack.key_id)
     ELSE conn' = [conn EXCEPT ![c].pc = "key"]
  /\ UNCHANGED <<reg, codec, run, opts, st, mu, cur_, max_, loop, clock, environ, fs, spawned>>

LookupKey(c) ==
  /\ conn[c].pc = "key"
  /\ mu = 0                               \* lock_guard over the lookup
  /\ IF conn[c].pack.key_id \in DOMAIN st.pubkeys_b64_by_id
     THEN conn' = [conn EXCEPT ![c].pc = "verify",
                               ![c].pub_b64 = st.pubkeys_b64_by_id[conn[c].pack.key_id]]
     ELSE Reject(c, "unknown key_id: " \o conn[c].pack.key_id)
  /\ UNCHANGED <<reg, codec, run, opts, st, mu, cur_, max_, loop, clock, environ, fs, spawned>>

\* handle_pack going on whatever verify_p256 returns
VerifyOkUnchecked(c) == TRUE

\* handle_pack verifying the signature over the bytes it was made for, not
\* over the payload bytes of the envelope
VerifyOkOverSigned(c) ==
  verify_p256(conn[c].pub_b64, conn[c].env.signature.over, conn[c].env.signature)

\* handle_pack: verify_p256(pub_b64, payload_view, sig_view)
VerifyOk(c) == verify_p256(conn[c].pub_b64, conn[c].env.payload, conn[c].env.signature)

Verify(c) ==
  /\ conn[c].pc = "verify"
  /\ IF VerifyOk(c)
     THEN conn' = [conn EXCEPT ![c].pc = "time"]
     ELSE Reject(c, "signature invalid")
  /\ UNCHANGED <<reg, codec, run, opts, st, mu, cur_, max_, loop, clock, environ, fs, spawned>>

\* the time-bounds check of handle_pack: "" or the error
\* A uint64_t is held as the integer with the same 64 bits in two's
\* complement: 2^64 - k is -k.  Addition of two such integers is then the
\* machine's addition modulo 2^64, and `a > b` on uint64_t is UGt.
UGt(a, b) == IF (a < 0) = (b < 0) THEN a > b ELSE a < 0

\* handle_pack going on to the replay check whatever the time bounds say
TimeCheckSkipped(pack, now) == ""

TimeCheck(pack, now) ==
  IF pack.created_ms /= 0 /\ UGt(pack.created_ms, now + skew_ms) THEN "created_ms in future"
  ELSE IF pack.expires_ms /= 0 /\ UGt(now, pack.expires_ms + skew_ms) THEN "pack expired"
  ELSE ""

CheckTime(c) ==
  /\ conn[c].pc = "time"
  /\ LET now == clock                     \* now_epoch_ms()
         e == TimeCheck(conn[c].pack, now)
     IN IF e = ""
        THEN conn' = [conn EXCEPT ![c].pc = "replay", ![c].now = now]
        ELSE conn' = [conn EXCEPT ![c].pc = "respond", ![c].now = now,
                                  ![c].resp = <<ErrLine(e)>>]
  /\ UNCHANGED <<reg, codec, run, opts, st, mu, cur_, max_, loop, clock, environ, fs, spawned>>

\* operator<< of a uint64_t: its decimal digits; for one with the top bit
\* set (negative here, 2^64 - k) the digits of k, marked
Decimal(v) ==
  IF v < 0 THEN [top |-> TRUE, digits |-> Digits(0 - v)]
  ELSE [top |-> FALSE, digits |-> Digits(v)]

\* strtoull on what Decimal wrote
strtoull(d) == IF d.top THEN 0 - FromDigits(d.digits) ELSE FromDigits(d.digits)

\* append_seen: one line "hex \t expires_ms" at the end of the seen file
append_seen(file, hex, expires_ms) == Append(file, <<hex, Decimal(expires_ms)>>)

\* load_seen keeping the lines that expired as well
PrunedNever(exp, now) == FALSE

\* load_seen: exp != 0 && exp < now
Pruned(exp, now) == exp /= 0 /\ UGt(now, exp)

\* load_seen: the lines of the file in order, each kept line assigned to
\* its hex in the map
RECURSIVE load_seen(_, _, _)
load_seen(file, now, seen) ==
  IF file = <<>> THEN seen
  ELSE LET hex == Head(file)[1]
           exp == strtoull(Head(file)[2])
       IN  IF Pruned(exp, now) THEN load_seen(Tail(file), now, seen)
           ELSE load_seen(Tail(file), now,
                          [h \in DOMAIN seen \cup {hex} |-> IF h = hex THEN exp ELSE seen[h]])

\* the server is stopped while no handler runs and started again: the
\* in-memory state is gone, the seen file is read back at the time of start
Restart ==
  /\ loop.pc = "accept"
  /\ \A c \in Conns : conn[c].pc \in {"idle", "refused", "closed"}
  /\ loop.boot < MaxBoots
  /\ loop' = [loop EXCEPT !.boot = @ + 1]
  /\ st' = [st EXCEPT !.seen_pack_expiry_by_hex = load_seen(st.seen_file, clock, <<>>)]
  /\ mu' = 0
  /\ cur_' = 0
  /\ UNCHANGED <<reg, codec, run, opts, max_, conn, clock, environ, fs, spawned>>

\* std::lock_guard<std::mutex> lock(st->mu)
LockGuard(m, c) == m = 0

\* the replay check takes the server mutex
ReplayLock(c) ==
  /\ conn[c].pc = "replay"
  /\ LockGuard(mu, c)
  /\ mu' = c
  /\ conn' = [conn EXCEPT ![c].pc = "replay_find"]
  /\ UNCHANGED <<reg, codec, run, opts, st, cur_, max_, loop, clock, environ, fs, spawned>>

\* a seen entry rejecting whatever the time
SeenBlocksForever(exp, now) == TRUE

\* whether a seen entry still rejects a pack at `now`
SeenBlocks(exp, now) == exp = 0 \/ UGt(exp, now)

\* seen_pack_expiry_by_hex.find: replay, or the expired entry is erased
ReplayFind(c) ==
  /\ conn[c].pc = "replay_find"
  /\ LET seen == st.seen_pack_expiry_by_hex
         pack_hex == hex_pack_id(conn[c].pack.pack_id)
     IN IF pack_hex \in DOMAIN seen
        THEN IF SeenBlocks(seen[pack_hex], conn[c].now)
             THEN /\ Reject(c, "replay")
                  /\ mu' = 0
                  /\ st' = st
             ELSE /\ st' = [st EXCEPT !.seen_pack_expiry_by_hex =
                                 [h \in DOMAIN seen \ {pack_hex} |-> seen[h]]]
                  /\ conn' = [conn EXCEPT ![c].pc = "replay_insert"]
                  /\ mu' = mu
        ELSE /\ conn' = [conn EXCEPT ![c].pc = "replay_insert"]
             /\ UNCHANGED <<st, mu>>
  /\ UNCHANGED <<reg, codec, run, opts, cur_, max_, loop, clock, environ, fs, spawned>>

\* seen_pack_expiry_by_hex[pack_hex] = exp; append_seen; the mutex is released
ReplayInsert(c) ==
  /\ conn[c].pc = "replay_insert"
  /\ LET seen == st.seen_pack_expiry_by_hex
         pack_hex == hex_pack_id(conn[c].pack.pack_id)
         exp == conn[c].pack.expires_ms
     IN st' = [st EXCEPT
                 !.seen_pack_expiry_by_hex =
                    [h \in DOMAIN seen \cup {pack_hex} |-> IF h = pack_hex THEN exp ELSE seen[h]],
                 !.seen_file = append_seen(@, pack_hex, exp)]
  /\ mu' = 0
  /\ conn' = [conn EXCEPT ![c].pc = "execute", ![c].recorded = TRUE]
  /\ UNCHANGED <<reg, codec, run, opts, cur_, max_, loop, clock, environ, fs, spawned>>

OkLine(pack) == [kind |-> "OK", pack_id |-> hex_pack_id(pack.pack_id), steps |-> Len(pack.steps)]

StepLine(i, what, detail) == [kind |-> "STEP", i |-> i, what |-> what, detail |-> detail]

\* the OK line and env_add, before the first step
BeginExecute(c) ==
  /\ conn[c].pc = "execute"
  /\ conn' = [conn EXCEPT
                ![c].pc = IF conn[c].pack.steps = <<>> THEN "respond" ELSE "steps",
                ![c].resp = <<OkLine(conn[c].pack)>>,
                ![c].env_add = EnvAdd(conn[c].policy, conn[c].pack.env),
                ![c].written_canon_paths = {},
                ![c].i = 0]
  /\ UNCHANGED <<reg, codec, run, opts, st, mu, cur_, max_, loop, clock, environ, fs, spawned>>

\* the loop without its break
AfterStepNoBreak(c, broke) ==
  IF conn[c].i + 1 >= Len(conn[c].pack.steps) THEN "respond" ELSE "steps"

\* where the step loop goes after step i: on, or out when it broke or ended
AfterStep(c, broke) ==
  IF broke \/ conn[c].i + 1 >= Len(conn[c].pack.steps) THEN "respond" ELSE "steps"

\* one WriteFileStep of the loop
RunWrite(c, w) ==
  \E fault \in WriteFaults :
    LET allow_exec_writes ==
          IF conn[c].policy /= NoPolicy THEN conn[c].policy.allow_exec_writes ELSE FALSE
        path == expand_vars(w.path)
        r == safe_write_file(opts, allow_exec_writes, path, w.mode, fs, fault)
    IN IF r.ok
       THEN /\ fs' = FilesAfterWrite(fs, r)
            /\ conn' = [conn EXCEPT
                          ![c].written_canon_paths = @ \cup {r.canon},
                          ![c].tmp_dirs = @ \cup {r.tmp},
                          ![c].resp = Append(@, StepLine(conn[c].i, "write OK", "")),
                          ![c].i = @ + 1,
                          ![c].pc = AfterStep(c, FALSE)]
            /\ UNCHANGED spawned
       ELSE /\ conn' = [conn EXCEPT
                          ![c].resp = Append(@, StepLine(conn[c].i, "write ERR", r.error)),
                          ![c].tmp_dirs = @ \cup ({r.tmp} \ {EmptyStr}),
                          ![c].pc = "respond"]
            /\ fs' = FilesAfterWrite(fs, r)
            /\ UNCHANGED spawned

\* one ExecStep of the loop: the gates, then run_capture
RunExec(c, step) ==
  LET plan == ExecPlan(opts, conn[c].policy, conn[c].written_canon_paths, fs, step) IN
    IF plan.err /= ""
    THEN /\ conn' = [conn EXCEPT
                       ![c].resp = Append(@, StepLine(conn[c].i, "ERR", plan.err)),
                       ![c].pc = "respond"]
         /\ UNCHANGED <<fs, spawned>>
    ELSE IF ~CanSpawn(fs, plan.argv[1])
    THEN /\ conn' = [conn EXCEPT
                       ![c].resp = Append(@, StepLine(conn[c].i, "exec", "failed to spawn command")),
                       ![c].pc = "respond"]
         /\ UNCHANGED <<fs, spawned>>
    ELSE \E ok \in BOOLEAN :      \* r.ok: the child exited 0 and in time
         /\ spawned' = Append(spawned,
               [ conn |-> c, step |-> conn[c].i, argv |-> plan.argv, cwd |-> plan.cwd,
                 exe |-> Lookup(fs, plan.argv[1]),
                 envp |-> SpawnEnv(environ, conn[c].env_add),
                 env_add |-> conn[c].env_add,
                 written |-> conn[c].written_canon_paths ])
         /\ conn' = [conn EXCEPT
                       ![c].resp = Append(@, StepLine(conn[c].i, "exec", IF ok THEN "exit=0" ELSE "failed")),
                       ![c].i = @ + 1,
                       ![c].pc = AfterStep(c, ~ok)]
         /\ UNCHANGED fs

\* one iteration of handle_pack's step loop
RunStep(c) ==
  /\ conn[c].pc = "steps"
  /\ LET step == conn[c].pack.steps[conn[c].i + 1] IN
       IF step.op = "write" THEN RunWrite(c, step) ELSE RunExec(c, step)
  /\ UNCHANGED <<reg, codec, run, opts, st, mu, cur_, max_, loop, clock, environ>>

\* the sender's send_to: 1 when the receiver could not be resolved or reached
\* or the transcript not read; otherwise the transcript is printed and the
\* result is 0
send_to(delivered, resp) == IF ~delivered THEN 1 ELSE 0

\* write_all_fd(resp), close(client); the sender reads the transcript
WriteResponse(c) ==
  /\ conn[c].pc = "respond"
  /\ conn' = [conn EXCEPT ![c].pc = "closing",
                          ![c].sender_exit = send_to(TRUE, conn[c].resp)]
  /\ UNCHANGED <<reg, codec, run, opts, st, mu, cur_, max_, loop, clock, environ, fs, spawned>>

\* ~ConnPermit: ConnLimiter::release
Release(c) ==
  /\ conn[c].pc = "closing"
  /\ cur_' = IF cur_ > 0 THEN cur_ - 1 ELSE cur_
  /\ conn' = [conn EXCEPT ![c].pc = "closed"]
  /\ UNCHANGED <<reg, codec, run, opts, st, mu, max_, loop, clock, environ, fs, spawned>>

\* the system clock advances
Tick ==
  /\ clock < MaxTicks * TickMs
  /\ clock' = clock + TickMs
  /\ UNCHANGED <<reg, codec, run, opts, st, mu, cur_, max_, loop, conn, environ, fs, spawned>>

Handler(c) ==
  \/ ReadRequest(c)
  \/ ParseEnvelope(c)
  \/ ParsePayload(c)
  \/ LookupPolicy(c)
  \/ LookupKey(c)
  \/ Verify(c)
  \/ CheckTime(c)
  \/ ReplayLock(c)
  \/ ReplayFind(c)
  \/ ReplayInsert(c)
  \/ BeginExecute(c)
  \/ RunStep(c)
  \/ WriteResponse(c)
  \/ Release(c)

\* the receiver serving at most n connections, from `peers`, that send
\* envelopes of reqs
NextOver(reqs, peers, n) ==
  \/ Accept(reqs, peers, n)
  \/ Acquire
  \/ \E c \in Conns : Handler(c)

----------------------------------------------------------------------------
(* What the peers send, and how the receiver is configured.                *)

KeyP == <<"P">>
KeyLD == <<"L", "D", "_", "A">>
KeyDYLD == <<"D", "Y", "L", "D", "_", "A">>
KeyLDX == <<"L", "D", "X">>

Exec(argv0, cwd) == [op |-> "exec", argv |-> <<argv0>>, cwd |-> cwd, timeout_ms |-> 0]
ExecNoArgv == [op |-> "exec", argv |-> <<>>, cwd |-> EmptyStr, timeout_ms |-> 0]
WriteFile(path, mode) == [op |-> "write", path |-> path, mode |-> mode]

Bare(n) == Path(FALSE, <<n>>)
RunSh == Path(TRUE, <<"sb", "run.sh">>)

\* a policy line "k1 cmd=/bin/echo env=P"
PolicyEcho ==
  [ allowed_cmds |-> { Path(TRUE, <<"bin", "echo">>) }, allowed_env |-> { KeyP },
    allow_root_scripts |-> TRUE, allow_exec_writes |-> FALSE ]

\* the packs of the connection-level specification
PackA == Pack("k1", PackId(10), 0, TickMs, <<>>, <<Exec(Bare("echo"), EmptyStr)>>)
PackB == Pack("k1", PackId(171), 0, 0, <<>>, <<Exec(Bare("echo"), EmptyStr)>>)
PackNoPolicy == Pack("k2", PackId(12), 0, 0, <<>>, <<Exec(Bare("echo"), EmptyStr)>>)
PackUnknownKey == Pack("kx", PackId(13), 0, 0, <<>>, <<Exec(Bare("echo"), EmptyStr)>>)
PackFuture == Pack("k1", PackId(14), 8 * TickMs, 0, <<>>, <<Exec(Bare("echo"), EmptyStr)>>)

\* PackA's envelope with bits of the payload or of the signature changed
TamperedOf(pack) ==
  { Wire(Payload([pack EXCEPT !.steps = <<WriteFile(RunSh, 420)>>]),
         sign_p256(pack.key_id, Payload(pack))),
    Wire(Payload([pack EXCEPT !.key_id = "k2"]), sign_p256(pack.key_id, Payload(pack))),
    Wire([wire |-> "bad", pack |-> pack], sign_p256(pack.key_id, Payload(pack))),
    Wire(Payload(pack), [sign_p256(pack.key_id, Payload(pack)) EXCEPT !.bits = "flipped"]) }

ServerRequests ==
  { Signed(PackA), Signed(PackB), Signed(PackNoPolicy), Signed(PackUnknownKey),
    Signed(PackFuture) }
  \cup TamperedOf(PackA)
  \cup { [Signed(PackB) EXCEPT !.framing = "bad"] }

NoEnviron == <<>>

\* a loopback peer and one outside 100.64.0.0/10
ServerPeers == { <<127, 0>>, <<100, 128>> }

Init == InitWith({2}, {NoPolicy, PolicyEcho}, {NoEnviron})

\* two deliveries, of any two envelopes
Next == NextOver(ServerRequests, ServerPeers, 2) \/ Tick

Spec == Init /\ [][Next]_vars

\* more connections than permits, each sending a good or a malformed envelope
LimiterRequests == { Signed(PackB), [Signed(PackB) EXCEPT !.framing = "bad"] }

InitConn == InitWith({0, 2}, {NoPolicy}, {NoEnviron})

NextConn == NextOver(LimiterRequests, ServerPeers, NumConns)

SpecConn == InitConn /\ [][NextConn]_vars

----------------------------------------------------------------------------
(* The step interpreter: one connection, every pack of up to MaxSteps      *)
(* steps, under every policy.                                              *)

\* a policy line "k1 cmd=/bin/echo cmd=/sb/run.sh env=P env=LD_A
\*                allow_root_scripts=1 allow_exec_writes=1"
PolicyOpen ==
  [ allowed_cmds |-> { Path(TRUE, <<"bin", "echo">>), RunSh },
    allowed_env |-> { KeyP, KeyLD },
    allow_root_scripts |-> TRUE, allow_exec_writes |-> TRUE ]

\* "k1 cmd=/bin/echo allow_root_scripts=1 allow_exec_writes=1"
PolicyScripts ==
  [ allowed_cmds |-> { Path(TRUE, <<"bin", "echo">>) }, allowed_env |-> {},
    allow_root_scripts |-> TRUE, allow_exec_writes |-> TRUE ]

\* "k1 cmd=/bin/echo env=P allow_root_scripts=0 allow_exec_writes=1"
PolicyNoScripts ==
  [ allowed_cmds |-> { Path(TRUE, <<"bin", "echo">>) }, allowed_env |-> { KeyP },
    allow_root_scripts |-> FALSE, allow_exec_writes |-> TRUE ]

ExecPolicies == { NoPolicy, PolicyOpen, PolicyScripts, PolicyNoScripts }

\* the receiver's own environment: empty, or with a loader variable
ExecEnvirons == { NoEnviron, [k \in { KeyP, KeyLD } |-> "d"] }

StepChoices ==
  { WriteFile(RunSh, 493),
    WriteFile(RunSh, 420),
    WriteFile(Path(TRUE, <<"sb", "..", "etc", "x">>), 420),
    Exec(RunSh, EmptyStr),
    Exec(Path(TRUE, <<"sb", ".", "run.sh">>), EmptyStr),
    Exec(Path(TRUE, <<"ln", "run.sh">>), EmptyStr),
    Exec(Path(FALSE, <<".", "run.sh">>), EmptyStr),
    Exec(Bare("echo"), EmptyStr),
    Exec(Bare("foo"), EmptyStr),
    Exec(Path(TRUE, <<"sb", "..", "bin", "evil">>), EmptyStr),
    Exec(Path(TRUE, <<"sb", "tool">>), EmptyStr),
    Exec(Bare("echo"), Path(TRUE, <<"etc">>)),
    ExecNoArgv }

\* every sequence of 1..n steps
RECURSIVE StepSeqs(_)
StepSeqs(n) ==
  IF n = 0 THEN { <<>> }
  ELSE LET shorter == StepSeqs(n - 1)
       IN shorter \cup { Append(q, x) : q \in { r \in shorter : Len(r) = n - 1 }, x \in StepChoices }

PackEnvs ==
  { <<>>, [k \in { KeyP, KeyLD, KeyDYLD, KeyLDX } |-> "v"] }

ExecRequests ==
  { Signed(Pack("k1", PackId(10), 0, 0, env, steps)) :
      env \in PackEnvs, steps \in StepSeqs(MaxSteps) \ { <<>> } }

InitExec == InitWith({2}, ExecPolicies, ExecEnvirons)

NextExec == NextOver(ExecRequests, { <<127, 0>> }, 1)

SpecExec == InitExec /\ [][NextExec]_vars

----------------------------------------------------------------------------
(* Properties.                                                             *)

Finished(c) == conn[c].pc \in {"respond", "closing", "closed"}

AnsweredOk(c) == Finished(c) /\ conn[c].resp /= <<>> /\ conn[c].resp[1].kind = "OK"

AnsweredErr(c, detail) == Finished(c) /\ conn[c].resp = <<ErrLine(detail)>>

\* the detail of c's ERR line, "" when it has none
ErrDetail(c) ==
  IF conn[c].resp /= <<>> /\ conn[c].resp[1].kind = "ERR" THEN conn[c].resp[1].detail ELSE ""

\* c's handler got as far as the replay check: neither the read nor the
\* time-bounds check failed (the checks before them depend on the bytes only)
ReachedReplay(c) == Finished(c) /\ ErrDetail(c) \notin {"read_failed", "pack expired"}

\* the processes handler c spawned
SpawnedBy(c) == { k \in DOMAIN spawned : spawned[k].conn = c }

\* handler c wrote a file or spawned a process
HasEffects(c) ==
  SpawnedBy(c) /= {} \/ conn[c].written_canon_paths /= {} \/ conn[c].tmp_dirs /= {}

LoaderKey(k) ==
  StartsWith(k, <<"D", "Y", "L", "D", "_">>) \/ StartsWith(k, <<"L", "D", "_">>)

\* C1: once a delivery of an envelope has been answered OK, a later delivery
\* of the same bytes is not executed again, and while the pack passes the
\* time-bounds check it is answered ERR replay.
C1_ReplayRejected ==
  \A c \in Conns : \A d \in Conns :
    (c \in conn[d].after /\ conn[c].req = conn[d].req /\ AnsweredOk(c))
      => /\ ~conn[d].recorded
         /\ ~HasEffects(d)
         /\ ReachedReplay(d) => AnsweredErr(d, "replay")

\* C2: of the connections that deliver the same envelope, at most one passes
\* the replay check, whatever the interleaving of their handlers.
C2_ExactlyOnePasses ==
  \A c \in Conns : \A d \in Conns :
    (c /= d /\ conn[c].req /= NoReq /\ conn[c].req = conn[d].req /\ conn[c].recorded)
      => ~conn[d].recorded

\* Support for C2: the server mutex does make the replay check exclusive for
\* every pair of deliveries that both read the clock before the pack's
\* expires_ms (or of a pack that never expires).
ReplayExclusiveBeforeExpiry ==
  \A c \in Conns : \A d \in Conns :
    (c /= d /\ conn[c].req /= NoReq /\ conn[c].req = conn[d].req
       /\ conn[c].recorded /\ conn[d].recorded)
      => /\ conn[c].pack.expires_ms /= 0
         /\ \/ conn[c].now >= conn[c].pack.expires_ms
            \/ conn[d].now >= conn[d].pack.expires_ms

\* the handler threads that read a request, run handle_pack or write a response
Running ==
  { c \in Conns : conn[c].pc \notin {"idle", "admitted", "refused", "closed"} }

\* C3: with max_conns = N (below 1: 1), at most N handler threads run at any
\* time, and the permits taken are exactly those of the running handlers.
C3_ConnectionBound ==
  /\ Cardinality(Running) <=
       (IF opts.action_pack_max_conns < 1 THEN 1 ELSE opts.action_pack_max_conns)
  /\ cur_ = Cardinality(Running)

\* C3 witness: every permit is taken and the accept loop waits for one
C3_Witness ==
  /\ opts.action_pack_max_conns = 2
  /\ Cardinality(Running) = 2
  /\ loop.pc = "acquire"

\* every check of handle_pack and serve_loop succeeds for connection c
Authorized(c) ==
  /\ conn[c].req /= NoReq
  /\ decode_envelope(conn[c].req).ok
  /\ decode_payload(conn[c].req.payload).ok
  /\ LET pack == conn[c].req.payload.pack IN
       /\ st.have_policy => pack.key_id \in DOMAIN st.policy_by_id
       /\ pack.key_id \in DOMAIN st.pubkeys_b64_by_id
       /\ verify_p256(st.pubkeys_b64_by_id[pack.key_id], conn[c].req.payload,
                      conn[c].req.signature)
       /\ TimeCheck(pack, conn[c].now) = ""
  /\ conn[c].recorded

\* C4: a step runs only on a connection whose every check succeeded; a
\* connection with a failed check answers one ERR line, writes no file and
\* spawns no process.
C4_NoStepBeforeAuthorization ==
  \A c \in Conns :
    /\ (HasEffects(c) \/ conn[c].pc \in {"execute", "steps"} \/ conn[c].i > 0) => Authorized(c)
    /\ (Finished(c) /\ ~Authorized(c))
         => /\ Len(conn[c].resp) = 1
            /\ conn[c].resp[1].kind = "ERR"
            /\ ~HasEffects(c)

\* C4 witness: one delivery ran its step, the other failed the last check
C4_Witness ==
  \E c \in Conns : \E d \in Conns :
    /\ SpawnedBy(c) /= {}
    /\ AnsweredErr(d, "replay")
    /\ conn[d].pc = "closed"

\* an envelope that is not what the holder of the key named in its payload
\* signed: payload or signature bits differ
Tampered(req) ==
  req /= NoReq /\ req.signature /= sign_p256(req.payload.pack.key_id, req.payload)

\* C5: a tampered envelope is never answered OK, runs no step and its
\* pack_id is not recorded.
C5_TamperDetection ==
  \A c \in Conns :
    Tampered(conn[c].req)
      => /\ ~AnsweredOk(c)
         /\ conn[c].pc \notin {"execute", "steps"}
         /\ ~HasEffects(c)
         /\ ~conn[c].recorded

\* C5 witness: a payload changed under a registered key's signature is
\* answered "signature invalid"
C5_Witness ==
  \E c \in Conns :
    /\ Tampered(conn[c].req)
    /\ conn[c].req.payload.wire = "ok"
    /\ conn[c].req.signature.bits = "intact"
    /\ AnsweredErr(c, "signature invalid")

\* C6: no exec step spawns a file that an earlier write step of the same
\* pack wrote.
C6_WriteThenExecExcluded ==
  \A k \in DOMAIN spawned :
    spawned[k].exe \notin { w.c : w \in spawned[k].written }

\* the root-script rule for a spawned process
RootScript(s) ==
  /\ within_root(Path(TRUE, s.exe), opts.action_pack_root_real)
  /\ s.exe \in DOMAIN fs
  /\ HasExecBit(fs[s.exe])
  /\ s.exe \notin { w.c : w \in s.written }

\* C7: every spawned argv[0] is in the applicable allowlist, or is a root
\* script: allowed by the policy, located under the root, a regular
\* executable file, not written by this pack.
C7_CommandAllowlist ==
  \A k \in DOMAIN spawned :
    LET s == spawned[k]
        policy == conn[s.conn].policy
    IN IF st.have_policy
       THEN s.argv[1] \in policy.allowed_cmds \/ (policy.allow_root_scripts /\ RootScript(s))
       ELSE s.argv[1] \in kAllowed \/ RootScript(s)

\* C8: no key starting with DYLD_ or LD_ is in the environment of a
\* spawned process.
C8_NoLoaderEnv ==
  \A k \in DOMAIN spawned : \A key \in DOMAIN spawned[k].envp : ~LoaderKey(key)

\* the pack.env entries the policy of s's pack lets through
AllowedEntries(s) ==
  LET pack == conn[s.conn].pack
      allowed == st.policy_by_id[pack.key_id].allowed_env
  IN [key \in { x \in DOMAIN pack.env : x \in allowed /\ ~LoaderKey(x) } |-> pack.env[key]]

\* C9: under a policy, the pack.env entries passed to every exec step are
\* exactly those whose key is in allowed_env and is no loader key.
C9_EnvAllowlist ==
  st.have_policy => \A k \in DOMAIN spawned : spawned[k].env_add = AllowedEntries(spawned[k])

\* C9 witness: two exec steps of one pack got the same entries, some of the
\* pack's keys dropped by the policy and one kept
C9_Witness ==
  /\ st.have_policy
  /\ \E k \in DOMAIN spawned : \E j \in DOMAIN spawned :
       /\ k /= j
       /\ spawned[k].conn = spawned[j].conn
       /\ DOMAIN spawned[k].env_add = { KeyP }
       /\ KeyLDX \in DOMAIN conn[spawned[k].conn].pack.env

\* C10: without a policy file no key of pack.env is forwarded to an exec
\* step, and no write step leaves a file with an execute bit.
C10_DefaultMode ==
  ~st.have_policy =>
    /\ \A k \in DOMAIN spawned : DOMAIN spawned[k].env_add = {}
    /\ \A c \in Conns : \A w \in conn[c].written_canon_paths : ~HasExecBit(fs[w.c])

----------------------------------------------------------------------------
(* The receiver with one connection and packs of write steps: every way a  *)
(* path can leave the root, every kind of mode, under every write policy.  *)

\* "k1 cmd=/bin/echo allow_root_scripts=1 allow_exec_writes=0"
PolicyNoExecWrites ==
  [ allowed_cmds |-> { Path(TRUE, <<"bin", "echo">>) }, allowed_env |-> {},
    allow_root_scripts |-> TRUE, allow_exec_writes |-> FALSE ]

WritePolicies == { NoPolicy, PolicyScripts, PolicyNoExecWrites }

WriteChoices ==
  { WriteFile(RunSh, 420),
    WriteFile(RunSh, 493),
    WriteFile(RunSh, 0),
    WriteFile(RunSh, 2541),                                   \* 04755
    WriteFile(RunSh, 512),                                    \* 01000
    WriteFile(Path(TRUE, <<"sb", "..", "etc", "x">>), 420),
    WriteFile(Path(TRUE, <<"sb", "out", "x">>), 420),
    WriteFile(Path(TRUE, <<"sb", "pw">>), 420),
    WriteFile(Path(TRUE, <<"sb", "..">>), 420),
    WriteFile(Path(TRUE, <<"etc", "passwd">>), 420),
    WriteFile(Path(TRUE, <<"x">>), 420),
    WriteFile(Path(TRUE, <<"sb", "">>), 420),
    WriteFile(Path(FALSE, <<"sb", "x">>), 420),
    WriteFile(Path(FALSE, <<"~", "x">>), 420),
    WriteFile(Path(TRUE, <<"ln", "y">>), 420),
    WriteFile(Path(TRUE, <<"sb", "data", "x">>), 420),
    WriteFile(Path(TRUE, <<"sb", "nodir", "x">>), 420),
    WriteFile(Path(TRUE, <<"sb", "data">>), 384),
    WriteFile(RunSh, 4004),                                   \* 07644
    WriteFile(RunSh, 66048),                                  \* 0201000
    WriteFile(RunSh, -1),                                     \* 0xffffffff
    WriteFile(RunSh, (0 - 2147483647) - 1),                   \* 0x80000000
    Exec(Bare("echo"), EmptyStr) }

\* every sequence of 1..n write steps
RECURSIVE WriteSeqs(_)
WriteSeqs(n) ==
  IF n = 0 THEN { <<>> }
  ELSE LET shorter == WriteSeqs(n - 1)
       IN shorter \cup { Append(q, x) : q \in { r \in shorter : Len(r) = n - 1 }, x \in WriteChoices }

WriteRequests ==
  { Signed(Pack("k1", PackId(10), 0, 0, <<>>, steps)) : steps \in WriteSeqs(MaxSteps) \ { <<>> } }

InitWrite == InitWith({2}, WritePolicies, {NoEnviron})

NextWrite == NextOver(WriteRequests, { <<127, 0>> }, 1)

SpecWrite == InitWrite /\ [][NextWrite]_vars

\* the location a canonical path names lies under the root directory
UnderRoot(c) == IsPrefix(opts.action_pack_root_real.c, c)

\* the path of a write step leaves the root: it is not absolute, has no
\* parent directory or no file name, or its parent directory does not
\* canonicalize to a location under the root
Escapes(files, path) ==
  \/ path = EmptyStr
  \/ ~path.abs
  \/ Len(path.c) <= 1
  \/ Last(path.c) = ""
  \/ LET parent == Lookup(files, Path(TRUE, DropLast(path.c)))
     IN parent = NoFile \/ ~UnderRoot(parent)

EscapeErrors ==
  { "bad parent dir", "path outside root", "bad path", "bad filename", "path must be absolute" }

\* no file outside the root was created, replaced or given another mode, and
\* no temp file was created outside the root
OutsideUntouched ==
  /\ \A f \in DOMAIN fs \cup DOMAIN InitialFiles :
       ~UnderRoot(f) => f \in DOMAIN fs /\ f \in DOMAIN InitialFiles /\ fs[f] = InitialFiles[f]
  /\ \A c \in Conns : \A d \in conn[c].tmp_dirs : UnderRoot(d.c)

\* the write step connection c is about to run leaves the root
AtEscapingWrite(c) ==
  /\ conn[c].pc = "steps"
  /\ conn[c].pack.steps[conn[c].i + 1].op = "write"
  /\ Escapes(fs, expand_vars(conn[c].pack.steps[conn[c].i + 1].path))

\* C11: a write step whose path leaves the root fails with one of the
\* containment errors, creating no temp file; and whatever the steps, no file
\* outside the root is created, replaced or changed and no temp file is
\* created outside the root.
C11_WritesContained ==
  [][ /\ OutsideUntouched'
      /\ \A c \in Conns :
           (AtEscapingWrite(c) /\ conn'[c] /= conn[c]) =>
             /\ conn'[c].resp = Append(conn[c].resp, conn'[c].resp[Len(conn'[c].resp)])
             /\ conn'[c].resp[Len(conn'[c].resp)].what = "write ERR"
             /\ conn'[c].resp[Len(conn'[c].resp)].detail \in EscapeErrors
             /\ conn'[c].tmp_dirs = conn[c].tmp_dirs
             /\ fs' = fs ]_vars

\* C11 witness: a write through a symbolic link that leads out of the root
\* was refused, after a write into the root had replaced a file there
C11_Witness ==
  \E c \in Conns :
    /\ Len(conn[c].resp) = 3
    /\ conn[c].resp[3].what = "write ERR"
    /\ conn[c].resp[3].detail = "bad parent dir"
    /\ conn[c].resp[2].what = "write OK"
    /\ conn[c].pack.steps[2].path = Path(TRUE, <<"sb", "out", "x">>)
    /\ conn[c].pack.steps[1].path = Path(TRUE, <<"sb", "pw">>)

\* executable writes are not allowed for the pack of connection c
NoExecWrites(c) == conn[c].policy = NoPolicy \/ ~conn[c].policy.allow_exec_writes

\* the write step connection c is about to run asks for an execute bit
AtExecModeWrite(c) ==
  /\ conn[c].pc = "steps"
  /\ conn[c].pack.steps[conn[c].i + 1].op = "write"
  /\ \E bit \in {1, 8, 64} : ((conn[c].pack.steps[conn[c].i + 1].mode % 512) \div bit) % 2 = 1

LineOk(l) == l.what = "write OK" \/ (l.what = "exec" /\ l.detail = "exit=0")

\* the last line of connection c's transcript is that of a failed step
StepFailed(c) ==
  /\ conn[c].resp /= <<>>
  /\ conn[c].resp[Len(conn[c].resp)].kind = "STEP"
  /\ ~LineOk(conn[c].resp[Len(conn[c].resp)])

\* C13: the step lines of a transcript are those of steps 0..k in order, only
\* the last of them can be a failure, every spawned process belongs to a step
\* with a line, and after the first failing step the connection adds no line
\* and performs no side effect.
C13_OrderedSteps ==
  [][ \A c \in Conns :
        /\ (conn'[c].resp /= <<>> /\ conn'[c].resp[1].kind = "OK") =>
             /\ \A j \in 2..Len(conn'[c].resp) :
                  conn'[c].resp[j].kind = "STEP" /\ conn'[c].resp[j].i = j - 2
             /\ \A j \in 2..(Len(conn'[c].resp) - 1) : LineOk(conn'[c].resp[j])
             /\ \A k \in DOMAIN spawned' :
                  spawned'[k].conn = c => spawned'[k].step + 2 <= Len(conn'[c].resp)
             /\ \A k \in DOMAIN spawned' : \A j \in DOMAIN spawned' :
                  (spawned'[k].conn = c /\ spawned'[j].conn = c /\ k < j) =>
                    spawned'[k].step < spawned'[j].step
        /\ StepFailed(c) =>
             /\ conn'[c].resp = conn[c].resp
             /\ conn'[c].written_canon_paths = conn[c].written_canon_paths
             /\ conn'[c].tmp_dirs = conn[c].tmp_dirs
             /\ { k \in DOMAIN spawned' : spawned'[k].conn = c } = SpawnedBy(c)
             /\ fs' = fs ]_vars

\* C13 witness: the first of two steps was a command that exited non-zero,
\* and the write step after it was not performed
C13_Witness ==
  \E c \in Conns :
    /\ Finished(c)
    /\ conn[c].pack /= NoPack
    /\ Len(conn[c].pack.steps) = 2
    /\ conn[c].pack.steps[2] = WriteFile(RunSh, 420)
    /\ Len(conn[c].resp) = 2
    /\ conn[c].resp[2].what = "exec"
    /\ conn[c].resp[2].detail = "failed"
    /\ SpawnedBy(c) /= {}
    /\ RunSh.c \notin DOMAIN fs

----------------------------------------------------------------------------
(* One call of run_capture with a child that does as it likes.  The thread *)
(* that called run_capture keeps running; nothing is assumed of the child. *)

RunTimeouts == { 0, 30, 120 }

RunSizes == { 1, 3 }

InitRun == InitWith({2}, {NoPolicy}, {NoEnviron})

NextRun ==
  \/ RunStart(RunTimeouts, RunSizes)
  \/ RunCapture
  \/ ChildWrite
  \/ ChildClose
  \/ ChildExit

SpecRun == InitRun /\ [][NextRun]_vars /\ WF_vars(RunCapture)

\* a child that never exits on its own runs under a timeout
TimedForever ==
  /\ run.pc \notin { "idle", "done" }
  /\ run.timeout_ms > 0
  /\ run.child.lives = "forever"

\* run_capture returned a timeout, the child killed and reaped
TimedOutDone ==
  /\ run.pc = "done"
  /\ run.res.timed_out
  /\ ~run.res.ok
  /\ run.child.killed
  /\ run.child.state = "reaped"

\* C14: a call with timeout_ms > 0 whose child never exits on its own
\* eventually returns with timed_out set and ok false, the child killed and
\* reaped, whatever the child does with its streams.
C14_TimeoutTerminates == TimedForever ~> TimedOutDone

\* while a stream is open, a timed call of a child that runs forever returns
\* at the timeout and no later
TimeoutWhileStreamsOpen ==
  /\ (run.pc = "loop" /\ run.timeout_ms > 0) => run.elapsed <= run.timeout_ms
  /\ (run.pc = "done" /\ run.res.timed_out) =>
       /\ run.elapsed = run.timeout_ms
       /\ ~run.res.ok
       /\ run.child.state = "reaped"
  /\ (run.pc = "wait" /\ run.child.lives = "forever") =>
       ~run.child.out_w /\ ~run.child.err_w

\* C15: the sender returns exit code 0 only on a transcript that starts with
\* OK, and 1 on every other transcript.
C15_SenderExitCode ==
  \A c \in Conns :
    conn[c].sender_exit /= -1 =>
      (conn[c].sender_exit = IF AnsweredOk(c) THEN 0 ELSE 1)

----------------------------------------------------------------------------
(* The receiver with one connection, a clock, and packs of every kind of   *)
(* time bound: none, passed, current, ahead, and within 30000 of 2^64 - 1. *)

\* created_ms and expires_ms of the packs; -1 is 2^64 - 1, -skew_ms is
\* 2^64 - 30000
TimeStamps == { 0, TickMs, 2 * TickMs, 2 * TickMs + 1, 4 * TickMs, -1, -skew_ms }

TimeRequests ==
  { Signed(Pack("k1", PackId(10), created, expires, <<>>, <<Exec(Bare("echo"), EmptyStr)>>)) :
      created \in TimeStamps, expires \in TimeStamps }

InitTime == InitWith({2}, {NoPolicy}, {NoEnviron})

NextTime == NextOver(TimeRequests, { <<127, 0>> }, 1) \/ Tick

SpecTime == InitTime /\ [][NextTime]_vars

\* created_ms > now + 30000 and now > expires_ms + 30000 on the numbers the
\* 64 bits stand for (now is far below 2^63)
CreatedInFuture(pack, now) ==
  pack.created_ms /= 0 /\ (pack.created_ms < 0 \/ pack.created_ms > now + skew_ms)

Expired(pack, now) ==
  pack.expires_ms > 0 /\ now > pack.expires_ms + skew_ms

\* C16: a verified pack is answered "created_ms in future" iff created_ms is
\* not 0 and exceeds now + 30000, otherwise "pack expired" iff expires_ms is
\* not 0 and now exceeds expires_ms + 30000; a pack rejected by either check
\* runs no step and leaves the replay cache unchanged.
C16_TimeBounds ==
  [][ \A c \in Conns :
        (conn[c].pc = "time" /\ conn'[c] /= conn[c]) =>
          LET pack == conn[c].pack
              future == conn'[c].resp = <<ErrLine("created_ms in future")>>
              expired == conn'[c].resp = <<ErrLine("pack expired")>>
          IN /\ future <=> CreatedInFuture(pack, clock)
             /\ expired <=> (~CreatedInFuture(pack, clock) /\ Expired(pack, clock))
             /\ (future \/ expired) =>
                  /\ conn'[c].pc = "respond"
                  /\ st' = st /\ fs' = fs /\ spawned' = spawned
             /\ ~(future \/ expired) => conn'[c].pc = "replay" ]_vars

\* with time bounds below 2^63 the time check is as C16 states it
TimeBoundsBelowWrap ==
  [][ \A c \in Conns :
        (conn[c].pc = "time" /\ conn'[c] /= conn[c]
           /\ conn[c].pack.created_ms >= 0 /\ conn[c].pack.expires_ms >= 0) =>
          LET pack == conn[c].pack
              future == conn'[c].resp = <<ErrLine("created_ms in future")>>
              expired == conn'[c].resp = <<ErrLine("pack expired")>>
          IN /\ future <=> CreatedInFuture(pack, clock)
             /\ expired <=> (~CreatedInFuture(pack, clock) /\ Expired(pack, clock))
             /\ (future \/ expired) =>
                  /\ conn'[c].pc = "respond"
                  /\ st' = st /\ fs' = fs /\ spawned' = spawned
             /\ ~(future \/ expired) => conn'[c].pc = "replay" ]_vars

\* C17: with a policy file configured, a pack whose key_id has no policy is
\* answered "policy missing for key_id: <id>", whether or not the key is
\* registered and the signature valid; it runs no step and is not recorded.
C17_PolicyRequired ==
  \A c \in Conns :
    (Finished(c) /\ conn[c].pack /= NoPack /\ st.have_policy
       /\ conn[c].pack.key_id \notin DOMAIN st.policy_by_id) =>
      /\ conn[c].resp = <<ErrLine("policy missing for key_id: " \o conn[c].pack.key_id)>>
      /\ ~HasEffects(c)
      /\ ~conn[c].recorded

\* C17 witness: a pack signed by a registered key that has no policy line was
\* refused
C17_Witness ==
  \E c \in Conns :
    /\ Finished(c)
    /\ st.have_policy
    /\ conn[c].req = Signed(PackNoPolicy)
    /\ PackNoPolicy.key_id \in DOMAIN st.pubkeys_b64_by_id
    /\ conn[c].resp = <<ErrLine("policy missing for key_id: k2")>>

----------------------------------------------------------------------------
(* The codec on its own: packs, envelopes and raw bytes drawn from small   *)
(* sets, each encoded and then decoded.                                    *)

MaxCodecSteps == 2

\* n bytes, all b
Fill(n, b) == [i \in 1..n |-> b]

CodecKeyIds == { <<>>, <<107>>, Fill(255, 107), Fill(256, 107) }
CodecTimes == { <<0, 0>>, <<70000, -1>> }
CodecPackIds == { Fill(16, 0), [i \in 1..16 |-> 16 * i - 1] }
CodecEnvs ==
  { <<>>,
    [k \in { <<72>> } |-> <<47, 104>>],
    [k \in { <<72>>, <<80, 65>> } |-> IF k = <<72>> THEN <<>> ELSE Fill(300, 47)] }
CodecStepChoices ==
  { ExecStep(<<>>, <<>>, 0),
    ExecStep(<<Fill(2, 47), <<>>, <<45, 120>>>>, <<47, 115>>, 70000),
    WriteFileStep(<<47, 115, 47, 102>>, <<>>, 420),
    WriteFileStep(<<102>>, <<0, 255, 10>>, -1) }

RECURSIVE CodecStepSeqs(_)
CodecStepSeqs(n) ==
  IF n = 0 THEN { <<>> }
  ELSE CodecStepSeqs(n - 1)
       \cup { Append(s, c) : s \in { t \in CodecStepSeqs(n - 1) : Len(t) = n - 1 },
                             c \in CodecStepChoices }

CodecPack(key_id, times, pack_id, env, steps) ==
  [key_id |-> key_id, created_ms |-> times[1], expires_ms |-> times[2],
   pack_id |-> pack_id, env |-> env, steps |-> steps]

\* packs at the limits of the encoder: a string of 65535 bytes and one of
\* 65536, 65536 arguments, 10001 steps
LimitPacks ==
  { CodecPack(<<107>>, <<0, 0>>, Fill(16, 0), <<>>, <<s>>) :
      s \in { ExecStep(<<Fill(65535, 97)>>, <<>>, 0),
              ExecStep(<<Fill(65536, 97)>>, <<>>, 0),
              ExecStep(Fill(65536, <<>>), <<>>, 0),
              WriteFileStep(Fill(65536, 47), <<>>, 420) } }
  \cup { CodecPack(<<107>>, <<0, 0>>, Fill(16, 0), <<>>,
                   Fill(kMaxPayloadSteps + 1, ExecStep(<<>>, <<>>, 0))) }

CodecPacks ==
  { CodecPack(k, t, id, env, steps) :
      k \in CodecKeyIds, t \in CodecTimes, id \in CodecPackIds, env \in CodecEnvs,
      steps \in CodecStepSeqs(MaxCodecSteps) }
  \cup LimitPacks

CodecEnvelopes ==
  [payload : { <<>>, <<1>>, <<0, 255>>, EnvelopeMagic, Fill(300, 65) },
   signature : { <<>>, <<7>>, <<48, 0, 255>>, Fill(70, 48) }]

\* declared lengths: small ones, the two around 2^31, and the last five
\* below 2^32
DeclaredLens ==
  { 0, 1, 2, 2147483647, (0 - 2147483647) - 1, -5, -4, -3, -2, -1 }
WireBodies == { <<>>, <<9>>, <<9, 9>> }

\* a header that declares payload_len and sig_len, around bodies that need
\* not have those lengths; and the same cut short or with another magic
WireFrames ==
  { magic \o write_u32_le(payload_len) \o payload \o write_u32_le(sig_len) \o signature :
      magic \in { EnvelopeMagic, <<83, 65, 80, 50>> },
      payload_len \in DeclaredLens, payload \in WireBodies,
      sig_len \in DeclaredLens, signature \in WireBodies }
WireInputs ==
  WireFrames \cup { SubSeq(f, 1, 8) \o t : f \in WireFrames, t \in WireBodies }

\* a payload header that declares key_id, env_count and step_count
RawHeader(version, key_id, env_count, step_count) ==
  PayloadMagic \o write_u8(version) \o write_u8(Len(key_id)) \o write_u16_le(0)
    \o write_u64_le(0) \o write_u64_le(0) \o Fill(16, 0)
    \o write_u32_le(env_count) \o write_u32_le(step_count) \o key_id

\* a WriteFileStep that declares blob_len around data that need not have
\* that length, and an ExecStep without arguments
RawWrite(blob_len, data) ==
  write_u8(2) \o write_u8(0) \o write_u16_le(0) \o write_u32_le(420)
    \o write_u16_le(1) \o <<102>> \o write_u32_le(blob_len) \o data
RawExec ==
  write_u8(1) \o write_u8(0) \o write_u16_le(0) \o write_u32_le(0)
    \o write_u16_le(0) \o write_u16_le(0)

\* declared step counts and blob lengths: small ones, the ones around the
\* limits, and ones with the top bit set
DeclaredCounts == { 0, 1, 2, kMaxPayloadSteps, kMaxPayloadSteps + 1, 2147483647, -1 }
DeclaredBlobs ==
  { 0, 1, kMaxTotalWriteBytes - 1, kMaxTotalWriteBytes, kMaxTotalWriteBytes + 1, -1 }
RawLastSteps ==
  { <<>>, RawExec } \cup { RawWrite(n, data) : n \in DeclaredBlobs, data \in { <<>>, <<7>> } }
RawBodies ==
  { first \o last : first \in { <<>>, RawExec, RawWrite(1, <<7>>) }, last \in RawLastSteps }
RawPayloads ==
  { RawHeader(version, key_id, 0, step_count) \o body \o trail :
      version \in { 1, 2 }, key_id \in { <<>>, <<107>> }, step_count \in DeclaredCounts,
      body \in RawBodies, trail \in { <<>>, <<0>> } }

MaxScriptLines == 3

\* lines that compile: blank, `# exec`, `cd /a`, `cd /b`, `timeout 5`,
\* `timeout 70`, `env A=1`, `env A=2`, `env B=`, `put /f @s`, `exec ls`,
\* `exec echo hi`
CoreLines ==
  { <<>>,
    << <<35>>, OpExec >>,
    << OpCd, <<47, 97>> >>,
    << OpCd, <<47, 98>> >>,
    << OpTimeout, <<53>> >>,
    << OpTimeout, <<55, 48>> >>,
    << OpEnv, <<65, 61, 49>> >>,
    << OpEnv, <<65, 61, 50>> >>,
    << OpEnv, <<66, 61>> >>,
    << OpPut, <<47, 102>>, <<64, 115>> >>,
    << OpExec, <<108, 115>> >>,
    << OpExec, <<101, 99, 104, 111>>, <<104, 105>> >> }

\* lines at the edges: wrong argument counts, `timeout` with 2147483647,
\* 2147483648, 4294967295, 4294967296, -1, +7, x, 07 and twenty-one digits,
\* `env =1`, `env A`, `put f @s`, `put /f s`, `put /f @`, `put /f @t`,
\* `#exec ls`, `run ls`
EdgeLines ==
  { << OpCd >>, << OpCd, <<47, 97>>, <<47, 98>> >>,
    << OpTimeout >>,
    << OpTimeout, <<50, 49, 52, 55, 52, 56, 51, 54, 52, 55>> >>,
    << OpTimeout, <<50, 49, 52, 55, 52, 56, 51, 54, 52, 56>> >>,
    << OpTimeout, <<52, 50, 57, 52, 57, 54, 55, 50, 57, 53>> >>,
    << OpTimeout, <<52, 50, 57, 52, 57, 54, 55, 50, 57, 54>> >>,
    << OpTimeout, <<45, 49>> >>,
    << OpTimeout, <<43, 55>> >>,
    << OpTimeout, <<120>> >>,
    << OpTimeout, <<48, 55>> >>,
    << OpTimeout, Fill(21, 57) >>,
    << OpEnv >>, << OpEnv, <<61, 49>> >>, << OpEnv, <<65>> >>,
    << OpPut, <<47, 102>> >>,
    << OpPut, <<102>>, <<64, 115>> >>,
    << OpPut, <<47, 102>>, <<115>> >>,
    << OpPut, <<47, 102>>, <<64>> >>,
    << OpPut, <<47, 102>>, <<64, 116>> >>,
    << OpExec >>,
    << <<35, 101, 120, 101, 99>>, <<108, 115>> >>,
    << <<114, 117, 110>>, <<108, 115>> >> }

RECURSIVE ScriptsOf(_, _)
ScriptsOf(lines, n) ==
  IF n = 0 THEN { <<>> }
  ELSE ScriptsOf(lines, n - 1)
       \cup { Append(t, l) : t \in { u \in ScriptsOf(lines, n - 1) : Len(u) = n - 1 },
                             l \in lines }

\* every script of core lines up to the bound, and an edge line alone,
\* before and behind `exec ls`
Scripts ==
  ScriptsOf(CoreLines, MaxScriptLines)
  \cup { <<e>> : e \in EdgeLines }
  \cup { << e, << OpExec, <<108, 115>> >> >> : e \in EdgeLines }
  \cup { << << OpExec, <<108, 115>> >>, e >> : e \in EdgeLines }

\* the source files the sender can open: s with two bytes, s empty
ScriptSources ==
  { [f \in { <<115>> } |-> <<1, 2>>], [f \in { <<115>> } |-> <<>>] }

InitCodec == InitWith({2}, WritePolicies, {NoEnviron})

NextCodec ==
  \/ CompileScript(Scripts, ScriptSources)
  \/ EncodePayload(CodecPacks)
  \/ ReceivePayload(RawPayloads)
  \/ DecodePayload
  \/ EncodeEnvelope(CodecEnvelopes)
  \/ ReceiveBytes(WireInputs)
  \/ DecodeEnvelope

SpecCodec == InitCodec /\ [][NextCodec]_vars

\* the sender's pack was accepted and the receiver has decoded the bytes
PayloadDecoded == codec.kind = "payload" /\ codec.pc = "decoded"

\* the same step: the same variant with the same fields
SameStep(a, b) ==
  /\ a.op = b.op
  /\ a.op = "exec" => a.argv = b.argv /\ a.cwd = b.cwd /\ a.timeout_ms = b.timeout_ms
  /\ a.op = "write" => a.path = b.path /\ a.data = b.data /\ a.mode = b.mode

\* the same mapping: the same keys with the same values
SameEnv(a, b) == DOMAIN a = DOMAIN b /\ \A k \in DOMAIN a : a[k] = b[k]

\* C18: whenever encode_payload accepts a pack, decode_payload succeeds on
\* the bytes and yields a pack equal to it field by field: key_id, pack_id,
\* created_ms, expires_ms, the env mapping, and the steps in the same order
\* with the same variant and fields.
C18_PayloadRoundTrip ==
  PayloadDecoded =>
    /\ codec.dec.ok
    /\ codec.dec.pack.key_id = codec.input.key_id
    /\ codec.dec.pack.pack_id = codec.input.pack_id
    /\ codec.dec.pack.created_ms = codec.input.created_ms
    /\ codec.dec.pack.expires_ms = codec.input.expires_ms
    /\ SameEnv(codec.dec.pack.env, codec.input.env)
    /\ Len(codec.dec.pack.steps) = Len(codec.input.steps)
    /\ \A i \in 1..Len(codec.input.steps) :
         SameStep(codec.dec.pack.steps[i], codec.input.steps[i])

\* a pack with the longest key_id, the largest expires_ms, two env entries
\* and both variants of step has gone through encoder and decoder
C18_Witness ==
  /\ PayloadDecoded
  /\ codec.dec.ok
  /\ Len(codec.input.key_id) = 255
  /\ codec.input.expires_ms = -1
  /\ Cardinality(DOMAIN codec.input.env) = 2
  /\ Len(codec.input.steps) = MaxCodecSteps
  /\ codec.input.steps[1].op = "exec" /\ Len(codec.input.steps[1].argv) = 3
  /\ codec.input.steps[2].op = "write" /\ codec.input.steps[2].data /= <<>>

\* the limits of the encoder are the ones the claim names
EncoderAccepts(p) ==
  /\ Len(p.key_id) \in 1..255
  /\ Len(p.steps) <= kMaxPayloadSteps
  /\ \A i \in 1..Len(p.steps) :
       IF p.steps[i].op = "exec"
       THEN /\ Len(p.steps[i].cwd) <= 65535
            /\ Len(p.steps[i].argv) <= 65535
            /\ \A j \in 1..Len(p.steps[i].argv) : Len(p.steps[i].argv[j]) <= 65535
       ELSE Len(p.steps[i].path) <= 65535
PayloadLimits ==
  codec.kind = "payload" /\ codec.pc /= "idle" => (codec.enc.ok <=> EncoderAccepts(codec.input))

\* an envelope was framed, whether or not the encoder accepted it
EnvelopeEncoded == codec.kind = "envelope" /\ codec.pc /= "idle"

\* C19: encode_envelope fails for an empty payload or an empty signature;
\* for nonempty ones it succeeds, and decode_envelope on its bytes succeeds
\* and returns the same payload and the same signature.
C19_EnvelopeRoundTrip ==
  EnvelopeEncoded =>
    /\ codec.input.payload = <<>> \/ codec.input.signature = <<>> => ~codec.enc.ok
    /\ codec.input.payload /= <<>> /\ codec.input.signature /= <<>> => codec.enc.ok
    /\ codec.pc = "decoded" =>
         /\ codec.dec.ok
         /\ codec.dec.payload = codec.input.payload
         /\ codec.dec.signature = codec.input.signature

\* an envelope whose payload length needs two bytes has made the round trip
C19_Witness ==
  /\ EnvelopeEncoded
  /\ codec.pc = "decoded"
  /\ Len(codec.input.payload) = 300
  /\ Len(codec.input.signature) = 70
  /\ codec.dec.ok

\* the lengths a frame declares, as the decoder reads them
DeclaredPayloadLen(bytes) == read_u32_le(Reader(SubSeq(bytes, 5, 8))).v
SigLenAt(bytes, payload_len) == read_u32_le(Reader(SubSeq(bytes, 9 + payload_len, 12 + payload_len))).v

\* L == 12 + payload_len + sig_len over the naturals
ExactFrame(bytes) ==
  LET payload_len == DeclaredPayloadLen(bytes)
  IN  /\ Len(bytes) >= 12
      /\ SubSeq(bytes, 1, 4) = EnvelopeMagic
      /\ payload_len >= 0
      /\ payload_len <= Len(bytes) - 12
      /\ SigLenAt(bytes, payload_len) = (Len(bytes) - 12) - payload_len

\* the payload length a frame declares is more than the bytes behind it
PayloadLenTooLarge(bytes) ==
  LET payload_len == DeclaredPayloadLen(bytes)
  IN  /\ Len(bytes) >= 12
      /\ SubSeq(bytes, 1, 4) = EnvelopeMagic
      /\ (payload_len < 0 \/ payload_len > Len(bytes) - 8)

WireDecoded == codec.kind = "wire" /\ codec.pc = "decoded"

\* C20: decode_envelope succeeds on L bytes only if they start with SAP1
\* and L = 12 + payload_len + sig_len without wrap-around; a declared
\* payload_len larger than the bytes remaining, up to 2^32 - 1, makes it
\* fail with "envelope truncated"; and it never reads outside the buffer.
C20_ExactFraming ==
  WireDecoded =>
    /\ codec.dec.ok => ExactFrame(codec.input)
    /\ PayloadLenTooLarge(codec.input) =>
         ~codec.dec.ok /\ codec.dec.error = "envelope truncated"
    /\ ~codec.dec.outside

\* below 2^32 - 4 the framing is exact and nothing outside the buffer is read
DeclaresWrappingLen(bytes) ==
  Len(bytes) >= 8 /\ DeclaredPayloadLen(bytes) \in { -4, -3, -2, -1 }
ExactFramingBelowWrap ==
  WireDecoded /\ ~DeclaresWrappingLen(codec.input) =>
    /\ codec.dec.ok => ExactFrame(codec.input)
    /\ PayloadLenTooLarge(codec.input) =>
         ~codec.dec.ok /\ codec.dec.error = "envelope truncated"
    /\ ~codec.dec.outside

----------------------------------------------------------------------------
(* The peer filter: every setting of the two switches, peers on both sides *)
(* of each boundary of 127.0.0.0/8 and 100.64.0.0/10.                      *)

PeerFilters ==
  [allow_local : BOOLEAN, allow_tailscale : BOOLEAN, max_request_bytes : {DefaultMaxRequestBytes}]

FilterPeers ==
  { <<127, 0>>, <<127, 255>>, <<126, 64>>, <<128, 64>>, <<100, 63>>, <<100, 64>>,
    <<100, 127>>, <<100, 128>>, <<99, 64>>, <<101, 64>>, <<10, 0>> }

InitPeer == InitFiltered({2}, {NoPolicy}, {NoEnviron}, PeerFilters)

NextPeer == NextOver(LimiterRequests, FilterPeers, 2)

SpecPeer == InitPeer /\ [][NextPeer]_vars

\* the peers the claim admits
Admissible(peer) ==
  \/ opts.action_pack_allow_local /\ peer[1] = 127
  \/ opts.action_pack_allow_tailscale /\ peer[1] = 100 /\ peer[2] \in 64..127

\* the connections accept() has returned
Accepted == { c \in Conns : conn[c].pc /= "idle" }

\* nothing of connection c was read, decoded, answered or run
Untouched(c) ==
  /\ conn[c].req = NoReq /\ conn[c].env = NoReq /\ conn[c].pack = NoPack
  /\ conn[c].resp = <<>> /\ conn[c].sender_exit = -1
  /\ ~conn[c].recorded /\ ~HasEffects(c)

\* C21: an accepted connection is handled iff allow_local and the first
\* octet is 127, or allow_tailscale and the first octet is 100 and the
\* second in 64..127; a denied one is closed with no response, no permit and
\* no byte of it decoded.
C21_PeerAdmission ==
  /\ \A c \in Accepted :
       /\ conn[c].pc /= "refused" <=> Admissible(conn[c].peer)
       /\ conn[c].pc = "refused" => Untouched(c)
  /\ cur_ = Cardinality(Running)

\* with local peers switched off a loopback peer was closed while a tailnet
\* peer holds the only permit in use
C21_Witness ==
  /\ ~opts.action_pack_allow_local
  /\ \E c \in Accepted : \E d \in Accepted :
       /\ conn[c].pc = "refused" /\ conn[c].peer[1] = 127
       /\ conn[d].pc = "envelope" /\ conn[d].peer = <<100, 127>>
  /\ cur_ = 1

----------------------------------------------------------------------------
(* The request size cap: envelopes of a good pack padded to sizes around   *)
(* max_request_bytes.                                                      *)

\* --action-pack-max-request: a cap between two and three buffers
SmallCap == 20000

RequestCaps == { SmallCap, 2 * ReadBuf }

RequestSizes ==
  { 12 + 1 + 1, 2 * ReadBuf, 2 * ReadBuf + 1, SmallCap - 1, SmallCap, SmallCap + 1,
    SmallCap + ReadBuf, 2 * SmallCap }

SizedRequests ==
  { [r EXCEPT !.size = n] : r \in { Signed(PackA), Signed(PackB) }, n \in RequestSizes }

InitRead ==
  InitFiltered({2}, {NoPolicy}, {NoEnviron},
               { [DefaultPeerFilter EXCEPT !.max_request_bytes = n] : n \in RequestCaps })

NextRead == NextOver(SizedRequests, { <<127, 0>> }, 2)

SpecRead == InitRead /\ [][NextRead]_vars

\* handler c is past read_all_fd
ReadDone(c) == conn[c].pc \notin {"idle", "admitted", "refused", "read"}

\* c sent more than the cap, or a read of c's handler failed or timed out
ReadMustFail(c) ==
  conn[c].req.size > opts.action_pack_max_request_bytes \/ ~conn[c].io_ok

\* every line of the seen file was appended by a handler that recorded it
SeenFromRecorded ==
  \A k \in DOMAIN st.seen_file :
    \E d \in Conns : conn[d].recorded /\ hex_pack_id(conn[d].pack.pack_id) = st.seen_file[k][1]

\* C22: a connection that sends more than max_request_bytes, or whose read
\* fails or times out, is answered exactly ERR read_failed, nothing of it is
\* decoded or run, the replay cache is unchanged and its permit released; a
\* request of exactly max_request_bytes is accepted.
C22_RequestCap ==
  /\ \A c \in Conns : ReadDone(c) =>
       /\ ReadMustFail(c) =>
            /\ conn[c].resp = <<ErrLine("read_failed")>>
            /\ conn[c].env = NoReq /\ conn[c].pack = NoPack
            /\ ~conn[c].recorded /\ ~HasEffects(c)
       /\ ~ReadMustFail(c) => conn[c].resp /= <<ErrLine("read_failed")>>
  /\ SeenFromRecorded /\ DOMAIN st.seen_pack_expiry_by_hex = { st.seen_file[k][1] : k \in DOMAIN st.seen_file }
  /\ cur_ = Cardinality(Running)

\* a request one byte over the cap was refused and its permit given back,
\* and a request of exactly the cap was answered OK
C22_Witness ==
  \E c \in Conns : \E d \in Conns :
    /\ ReadDone(c) /\ ReadDone(d)
    /\ conn[c].req.size = opts.action_pack_max_request_bytes + 1
    /\ conn[c].io_ok /\ conn[c].pc = "closed" /\ AnsweredErr(c, "read_failed")
    /\ conn[d].req.size = opts.action_pack_max_request_bytes
    /\ conn[d].pc = "closed" /\ AnsweredOk(d)
    /\ cur_ = 0

----------------------------------------------------------------------------
(* Restarts: packs that share one pack_id and differ in expires_ms, the    *)
(* clock, and a server that is stopped and started again.                  *)

ReuseExpiries == { 0, 1, TickMs, 3 * TickMs }

ReuseRequests ==
  { Signed(Pack("k1", PackId(10), 0, e, <<>>, <<Exec(Bare("echo"), EmptyStr)>>)) :
      e \in ReuseExpiries }

InitRestart == InitWith({2}, {NoPolicy}, {NoEnviron})

NextRestart == NextOver(ReuseRequests, { <<127, 0>> }, 2) \/ Tick \/ Restart

SpecRestart == InitRestart /\ [][NextRestart]_vars

\* handler d has read the clock and passed the time-bounds check
PassedTime(d) ==
  conn[d].pc \in {"replay", "replay_find", "replay_insert", "execute", "steps",
                  "respond", "closing", "closed"}
  /\ conn[d].pack /= NoPack
  /\ ErrDetail(d) \notin {"bad payload", "unknown key_id: k1", "signature invalid",
                           "created_ms in future", "pack expired"}

SamePackId(c, d) ==
  conn[c].pack /= NoPack /\ conn[d].pack /= NoPack /\ conn[c].pack.pack_id = conn[d].pack.pack_id

\* every recording of d's pack_id by another connection is of a pack with
\* expires_ms = E /= 0 and d read the clock after E + 30000, and one of them
\* was answered before d arrived
ReusesExpired(d) ==
  /\ PassedTime(d)
  /\ \E c \in conn[d].after : conn[c].recorded /\ SamePackId(c, d)
  /\ \A e \in Conns \ {d} :
       conn[e].recorded /\ SamePackId(e, d) =>
         conn[e].pack.expires_ms /= 0 /\ conn[d].now > conn[e].pack.expires_ms + skew_ms

\* C23: once now > E + 30000 for a recorded pack with expires_ms = E /= 0, a
\* fresh, validly signed pack with the same pack_id and valid time bounds is
\* answered OK, with the old entry still in the map or pruned by a restart,
\* and its insertion leaves the fresh expires_ms in the map.
C23_ReuseAfterExpiry ==
  /\ [](\A d \in Conns : ReusesExpired(d) /\ Finished(d) => AnsweredOk(d))
  /\ [][\A d \in Conns :
         conn[d].pc = "replay_insert" /\ conn'[d].pc = "execute" =>
           LET hex == hex_pack_id(conn[d].pack.pack_id)
           IN  /\ hex \in DOMAIN st'.seen_pack_expiry_by_hex
               /\ st'.seen_pack_expiry_by_hex[hex] = conn[d].pack.expires_ms]_vars

\* the pack_id was reused with the expired entry still in the map
ReusedInMemory ==
  \E c \in Conns : \E d \in Conns :
    /\ conn[c].recorded /\ c \in conn[d].after /\ conn[d].boot = conn[c].boot
    /\ loop.boot = 0
    /\ ReusesExpired(d) /\ AnsweredOk(d)

\* the pack_id was reused after a restart had pruned the expired entry, and
\* the map holds the fresh pack's expires_ms
C23_Witness ==
  \E c \in Conns : \E d \in Conns :
    /\ conn[c].recorded /\ c \in conn[d].after /\ conn[d].boot > conn[c].boot
    /\ ReusesExpired(d) /\ AnsweredOk(d)
    /\ conn[d].pack.expires_ms /= conn[c].pack.expires_ms
    /\ hex_pack_id(conn[d].pack.pack_id) \in DOMAIN st.seen_pack_expiry_by_hex
    /\ st.seen_pack_expiry_by_hex[hex_pack_id(conn[d].pack.pack_id)] = conn[d].pack.expires_ms

\* the entries of the map that are permanent or not yet expired at `now`
Unexpired(seen, now) ==
  [h \in { x \in DOMAIN seen : seen[x] = 0 \/ seen[x] >= now } |-> seen[h]]

\* the map load_seen builds is the map before the restart without its
\* expired entries
RestartKeepsUnexpired ==
  [][loop'.boot /= loop.boot =>
       st'.seen_pack_expiry_by_hex = Unexpired(st.seen_pack_expiry_by_hex, clock)]_vars

\* a pack answered OK before a restart, redelivered after it while permanent
\* or not yet expired, is answered ERR replay
ReplayAcrossRestart ==
  \A c \in Conns : \A d \in Conns :
    ( /\ c \in conn[d].after /\ conn[c].req = conn[d].req /\ AnsweredOk(c)
      /\ conn[d].boot > conn[c].boot
      /\ PassedTime(d) /\ Finished(d)
      /\ (conn[d].pack.expires_ms = 0 \/ conn[d].now <= conn[d].pack.expires_ms) )
      => AnsweredErr(d, "replay")

\* C24: after any accepted packs and a restart, the map load_seen rebuilds
\* is the map before the restart restricted to the entries that are
\* permanent or not yet expired; a pack accepted before the restart and not
\* yet expired is still answered ERR replay, one with expires_ms = 0 forever.
C24_ReplaySurvivesRestart == RestartKeepsUnexpired /\ []ReplayAcrossRestart

----------------------------------------------------------------------------
(* The order of the checks.                                                *)

\* the check a request fails first when the checks are taken in the order
\* envelope, payload, policy (with a policy file only), key, signature,
\* created_ms, expires_ms, each evaluated on the request by itself; "" when
\* it fails none of them
FirstFailed(req, now) ==
  LET e == decode_envelope(req) IN
  IF ~e.ok THEN "bad envelope"
  ELSE LET d == decode_payload(e.payload) IN
  IF ~d.ok THEN "bad payload"
  ELSE LET id == d.pack.key_id IN
  IF st.have_policy /\ id \notin DOMAIN st.policy_by_id
    THEN "policy missing for key_id: " \o id
  ELSE IF id \notin DOMAIN st.pubkeys_b64_by_id THEN "unknown key_id: " \o id
  ELSE IF ~verify_p256(st.pubkeys_b64_by_id[id], e.payload, e.signature)
    THEN "signature invalid"
  ELSE IF d.pack.created_ms /= 0 /\ UGt(d.pack.created_ms, now + skew_ms)
    THEN "created_ms in future"
  ELSE IF d.pack.expires_ms /= 0 /\ UGt(now, d.pack.expires_ms + skew_ms)
    THEN "pack expired"
  ELSE ""

\* the request of c fails the policy lookup, the key lookup, whatever the
\* other checks say
FailsPolicy(c) ==
  st.have_policy /\ conn[c].req.framing = "ok" /\ decode_payload(conn[c].req.payload).ok
    /\ conn[c].req.payload.pack.key_id \notin DOMAIN st.policy_by_id

FailsKey(c) ==
  conn[c].req.framing = "ok" /\ decode_payload(conn[c].req.payload).ok
    /\ conn[c].req.payload.pack.key_id \notin DOMAIN st.pubkeys_b64_by_id

\* C25: the single ERR line of a connection whose request was read names the
\* first check the request fails in the order envelope, payload, policy
\* (with a policy file only), key, signature, created_ms, expires_ms; ERR
\* replay is answered only to a request that fails none of them, and so is
\* OK.
C25_CheckPrecedence ==
  \A c \in Conns :
    Finished(c) /\ ErrDetail(c) /= "read_failed" =>
      LET e == FirstFailed(conn[c].req, conn[c].now) IN
        IF e /= "" THEN AnsweredErr(c, e)
        ELSE AnsweredOk(c) \/ AnsweredErr(c, "replay")

\* a pack whose key_id is in neither the policy file nor the keystore is
\* answered `policy missing`
PolicyBeforeKey ==
  \E c \in Conns :
    Finished(c) /\ FailsPolicy(c) /\ FailsKey(c)
      /\ AnsweredErr(c, "policy missing for key_id: " \o conn[c].req.payload.pack.key_id)

\* an expired pack whose pack_id is in the seen map is answered
\* `pack expired`
C25_Witness ==
  \E c \in Conns : \E d \in Conns :
    /\ c \in conn[d].after /\ conn[c].req = conn[d].req /\ AnsweredOk(c)
    /\ AnsweredErr(d, "pack expired")
    /\ hex_pack_id(conn[d].pack.pack_id) \in DOMAIN st.seen_pack_expiry_by_hex

----------------------------------------------------------------------------
(* Who writes the replay cache.                                            *)

\* the replay cache: the map and the seen file
Cache == <<st.seen_pack_expiry_by_hex, st.seen_file>>

\* handler c holds the mutex in the replay block and its request passed
\* every check before it, the signature and the time bounds among them
InReplayBlock(c) ==
  /\ conn[c].pc \in {"replay_find", "replay_insert"}
  /\ mu = c
  /\ FirstFailed(conn[c].req, conn[c].now) = ""

\* a step that changes the map or the file is a step of a handler in the
\* replay block, and that handler is not answered ERR by it
CacheWrittenByVerified ==
  [][Cache' /= Cache =>
       \E c \in Conns :
         /\ InReplayBlock(c)
         /\ conn'[c].pc \in {"replay_insert", "execute"}
         /\ \A d \in Conns \ {c} : conn'[d] = conn[d]]_vars

\* a handler that erased an expired entry goes on to record its pack, and a
\* handler that was answered ERR has recorded nothing
ErrLeavesCache ==
  \A c \in Conns :
    /\ conn[c].pc = "replay_insert" => mu = c /\ ~conn[c].recorded
    /\ conn[c].recorded => conn[c].pc \notin {"replay_find", "replay_insert"} /\ ErrDetail(c) = ""
    /\ Finished(c) /\ ErrDetail(c) /= "" => ~conn[c].recorded

\* the step that answers ERR leaves the map and the file as they were
ErrStepLeavesCache ==
  [][\A c \in Conns :
       ErrDetail(c) = "" /\ conn'[c].resp /= conn[c].resp /\ conn'[c].resp[1].kind = "ERR"
         => Cache' = Cache]_vars

\* ERR replay is answered only to a pack whose pack_id another handler of
\* this receiver recorded
ReplayOnlyAfterAccept ==
  \A d \in Conns :
    AnsweredErr(d, "replay") =>
      \E c \in Conns \ {d} :
        conn[c].recorded /\ conn[c].pack.pack_id = conn[d].pack.pack_id

\* C26: the map and the seen file are changed only by a handler whose pack
\* passed the signature and the time-bounds check; a connection answered
\* with an ERR line leaves both unchanged; ERR replay is answered only when
\* a pack with the same pack_id was accepted before.
C26_NoCachePoisoning ==
  /\ CacheWrittenByVerified
  /\ ErrStepLeavesCache
  /\ []ErrLeavesCache
  /\ []ReplayOnlyAfterAccept

\* a request with a wrong signature was answered ERR while the cache holds
\* the one pack that was accepted, and not the pack_id of the rejected one
C26_Witness ==
  \E c \in Conns : \E d \in Conns :
    /\ AnsweredErr(c, "signature invalid")
    /\ conn[d].recorded
    /\ DOMAIN st.seen_pack_expiry_by_hex = { hex_pack_id(conn[d].pack.pack_id) }
    /\ Len(st.seen_file) = 1
    /\ conn[c].pack.pack_id /= conn[d].pack.pack_id

\* a redelivered pack was answered ERR replay
ReplayAnswered ==
  \E c \in Conns : \E d \in Conns :
    AnsweredOk(c) /\ c \in conn[d].after /\ AnsweredErr(d, "replay")

----------------------------------------------------------------------------
(* Recording and failed steps.                                             *)

\* a handler in its step loop, or with a step line or an effect, has
\* recorded its pack_id
RecordedBeforeSteps ==
  \A c \in Conns :
    (conn[c].pc = "steps" \/ Len(conn[c].resp) > 1 \/ HasEffects(c)) => conn[c].recorded

\* d redelivers the bytes of c, which was answered OK and whose last step
\* line is a failure
RedeliversFailed(c, d) ==
  /\ c \in conn[d].after /\ conn[c].req = conn[d].req
  /\ AnsweredOk(c) /\ StepFailed(c)
  /\ Finished(d) /\ ErrDetail(d) /= "read_failed"

\* a failed pack redelivered while now <= expires_ms, or with expires_ms = 0,
\* is answered ERR replay
FailedPackReplays ==
  \A c \in Conns : \A d \in Conns :
    ( /\ RedeliversFailed(c, d)
      /\ (conn[d].pack.expires_ms = 0 \/ ~UGt(conn[d].now, conn[d].pack.expires_ms)) )
      => AnsweredErr(d, "replay") /\ ~HasEffects(d)

\* the same for now < expires_ms
FailedPackReplaysBeforeExpiry ==
  \A c \in Conns : \A d \in Conns :
    ( /\ RedeliversFailed(c, d)
      /\ (conn[d].pack.expires_ms = 0 \/ UGt(conn[d].pack.expires_ms, conn[d].now)) )
      => AnsweredErr(d, "replay") /\ ~HasEffects(d)

\* C27: the pack_id is recorded before the first step runs, and a pack that
\* was answered OK but whose step failed is answered ERR replay when it is
\* redelivered while unexpired.
C27_FailedPackStaysRecorded == RecordedBeforeSteps /\ FailedPackReplays

\* a failed pack was redelivered before its expires_ms and answered ERR replay
FailedPackRedelivered ==
  \E c \in Conns : \E d \in Conns :
    RedeliversFailed(c, d) /\ conn[d].pack.expires_ms /= 0
      /\ UGt(conn[d].pack.expires_ms, conn[d].now) /\ AnsweredErr(d, "replay")

----------------------------------------------------------------------------
(* The bounds of a decoded pack.                                           *)

\* decode_payload has run on bytes, the sender's or others
PayloadBytesDecoded == codec.kind \in {"payload", "raw"} /\ codec.pc = "decoded"

\* decode_payload has run on bytes encode_payload did not build
RawDecoded == codec.kind = "raw" /\ codec.pc = "decoded"

\* the first k bytes
Prefix(bytes, k) == SubSeq(bytes, 1, k)

\* decode_payload succeeds on a proper prefix of the bytes
HasTrailingBytes(bytes) ==
  \E k \in 0..(Len(bytes) - 1) : decode_payload_bytes(Prefix(bytes, k)).ok

\* the bytes with their step_count field (bytes 45..48) set to zero
WithoutSteps(bytes) ==
  Prefix(bytes, 44) \o write_u32_le(0) \o SubSeq(bytes, 49, Len(bytes))

\* the header, the key_id and the env entries are there and the header
\* declares a step_count above 10000
DeclaresTooManySteps(bytes) ==
  /\ Len(bytes) >= 48
  /\ LET d == decode_payload_bytes(WithoutSteps(bytes))
     IN  d.ok \/ d.error = "payload has trailing bytes"
  /\ UGt(Val32(bytes[45], bytes[46], bytes[47], bytes[48]), kMaxPayloadSteps)

\* the blob_len field of the last declared step is at bytes k..k+3: with a
\* zero there and nothing behind it the bytes decode, and the last step is
\* a WriteFileStep without data
BlobLenAt(bytes, k) ==
  LET d == decode_payload_bytes(Prefix(bytes, k - 1) \o write_u32_le(0))
  IN  /\ d.ok
      /\ d.pack.steps /= <<>>
      /\ d.pack.steps[Len(d.pack.steps)].op = "write"
      /\ d.pack.steps[Len(d.pack.steps)].data = <<>>

\* the write bytes of the steps before the last, plus the blob_len the last
\* step declares, are above 8 MiB
DeclaresTooManyWriteBytes(bytes) ==
  \E k \in 49..(Len(bytes) - 3) :
    /\ BlobLenAt(bytes, k)
    /\ LET d == decode_payload_bytes(Prefix(bytes, k - 1) \o write_u32_le(0))
           blob_len == Val32(bytes[k], bytes[k + 1], bytes[k + 2], bytes[k + 3])
       IN  blob_len < 0
             \/ total_write(d.pack.steps, Len(d.pack.steps)) + blob_len > kMaxTotalWriteBytes

\* the pack has at most 10000 steps and at most 8 MiB of write data
WithinBounds(pack) ==
  /\ Len(pack.steps) <= kMaxPayloadSteps
  /\ total_write(pack.steps, Len(pack.steps)) <= kMaxTotalWriteBytes

\* C28: a pack decode_payload returns has at most 10000 steps and at most
\* 8 MiB of write data in all, and the bytes were consumed exactly; bytes
\* that declare more steps, more write bytes, or that go on after the last
\* step are rejected with `too many steps`, `total embedded write bytes too
\* large`, `payload has trailing bytes`.
C28_DecodedPackBounds ==
  /\ PayloadBytesDecoded /\ codec.dec.ok => WithinBounds(codec.dec.pack)
  /\ RawDecoded =>
       LET bytes == codec.enc.bytes IN
         /\ codec.dec.ok => ~HasTrailingBytes(bytes)
         /\ DeclaresTooManySteps(bytes) =>
              ~codec.dec.ok /\ codec.dec.error = "too many steps"
         /\ DeclaresTooManyWriteBytes(bytes) =>
              ~codec.dec.ok /\ codec.dec.error = "total embedded write bytes too large"
         /\ HasTrailingBytes(bytes) =>
              ~codec.dec.ok /\ codec.dec.error = "payload has trailing bytes"

\* a WriteFileStep with one byte of data followed by one that declares
\* 8 MiB was rejected
C28_Witness ==
  /\ RawDecoded
  /\ DeclaresTooManyWriteBytes(codec.enc.bytes)
  /\ \E k \in 49..(Len(codec.enc.bytes) - 3) :
       /\ BlobLenAt(codec.enc.bytes, k)
       /\ Val32(codec.enc.bytes[k], codec.enc.bytes[k + 1],
                codec.enc.bytes[k + 2], codec.enc.bytes[k + 3]) = kMaxTotalWriteBytes
  /\ codec.dec.error = "total embedded write bytes too large"

\* 10001 declared steps were rejected, 10000 were not rejected as too many
StepLimitMet ==
  /\ RawDecoded
  /\ Val32(codec.enc.bytes[45], codec.enc.bytes[46], codec.enc.bytes[47],
           codec.enc.bytes[48]) = kMaxPayloadSteps + 1
  /\ codec.dec.error = "too many steps"
StepLimitNotMet ==
  /\ RawDecoded
  /\ Val32(codec.enc.bytes[45], codec.enc.bytes[46], codec.enc.bytes[47],
           codec.enc.bytes[48]) = kMaxPayloadSteps
  /\ codec.dec.error = "step truncated"

\* bytes behind a pack that decodes were rejected, and bytes with two steps
\* were decoded
TrailingRejected ==
  RawDecoded /\ HasTrailingBytes(codec.enc.bytes)
    /\ codec.dec.error = "payload has trailing bytes"
RawAccepted ==
  RawDecoded /\ codec.dec.ok /\ Len(codec.dec.pack.steps) = 2
    /\ total_write(codec.dec.pack.steps, 2) = 2

\* a blob_len of exactly 8 MiB passed the limit and failed for want of data
WriteLimitNotMet ==
  /\ RawDecoded
  /\ \E k \in 49..(Len(codec.enc.bytes) - 3) :
       /\ BlobLenAt(codec.enc.bytes, k)
       /\ Val32(codec.enc.bytes[k], codec.enc.bytes[k + 1],
                codec.enc.bytes[k + 2], codec.enc.bytes[k + 3]) = kMaxTotalWriteBytes
  /\ codec.dec.error = "write truncated"

----------------------------------------------------------------------------
(* The key_id of a decoded pack.                                           *)

\* C29: every pack decode_payload returns has a key_id of 1..255 bytes; a
\* payload with key_id_len = 0 is rejected.
C29_DecodedKeyIdNonEmpty ==
  PayloadBytesDecoded /\ codec.dec.ok =>
    Len(codec.dec.pack.key_id) >= 1 /\ Len(codec.dec.pack.key_id) <= 255

\* the key_id of a decoded pack is never longer than 255 bytes, and the
\* packs the encoder accepted come back with a key_id of 1..255 bytes
DecodedKeyIdAtMost255 ==
  /\ PayloadBytesDecoded /\ codec.dec.ok => Len(codec.dec.pack.key_id) <= 255
  /\ PayloadDecoded /\ codec.dec.ok => Len(codec.dec.pack.key_id) >= 1

\* a payload with key_id_len = 0 was decoded
EmptyKeyIdDecoded ==
  RawDecoded /\ codec.enc.bytes[6] = 0 /\ codec.dec.ok /\ codec.dec.pack.key_id = <<>>

----------------------------------------------------------------------------
(* The fields of a decoded envelope.                                       *)

\* decode_envelope has run, on the sender's bytes or on others
EnvelopeBytesDecoded == codec.kind \in {"envelope", "wire"} /\ codec.pc = "decoded"

\* C30: every envelope decode_envelope returns has a nonempty payload and a
\* nonempty signature; payload_len = 0 and sig_len = 0 are rejected.
C30_DecodedEnvelopeNonEmpty ==
  EnvelopeBytesDecoded /\ codec.dec.ok /\ ~codec.dec.outside =>
    codec.dec.payload /= <<>> /\ codec.dec.signature /= <<>>

\* the envelopes the encoder built come back with both fields nonempty
EncodedEnvelopeNonEmpty ==
  codec.kind = "envelope" /\ codec.pc = "decoded" /\ codec.dec.ok =>
    codec.dec.payload /= <<>> /\ codec.dec.signature /= <<>>

\* the twelve bytes SAP1, payload_len = 0, sig_len = 0 were decoded
EmptyEnvelopeDecoded ==
  /\ WireDecoded
  /\ codec.enc.bytes = EnvelopeMagic \o write_u32_le(0) \o write_u32_le(0)
  /\ codec.dec.ok /\ codec.dec.payload = <<>> /\ codec.dec.signature = <<>>

----------------------------------------------------------------------------
(* What compile_script makes of a script.                                  *)

Compiled == codec.kind = "script" /\ codec.pc = "compiled"

\* line i of the script is an instruction with the given op
IsOp(script, i, op) == script[i] /= <<>> /\ script[i][1] = op

\* the argument of the last line before line i with the given op, none
\* when there is no such line
LastBefore(script, i, op, none) ==
  LET before == { j \in 1..(i - 1) : IsOp(script, j, op) } IN
    IF before = {} THEN none
    ELSE script[CHOOSE j \in before : \A k \in before : k <= j][2]

\* the indices of the `put` and `exec` lines in script order
StepLines(script) ==
  LET idx == [i \in 1..Len(script) |-> i]
  IN  SelectSeq(idx, LAMBDA i : IsOp(script, i, OpPut) \/ IsOp(script, i, OpExec))

\* step number j of the pack is what line i of the script says
StepOfLine(step, script, i, files) ==
  IF IsOp(script, i, OpExec)
  THEN /\ step.op = "exec"
       /\ step.argv = Tail(script[i])
       /\ step.cwd = LastBefore(script, i, OpCd, <<>>)
       /\ step.timeout_ms = LET t == LastBefore(script, i, OpTimeout, <<>>)
                            IN  IF t = <<>> THEN 0 ELSE strtoul(t).v
  ELSE /\ step.op = "write"
       /\ step.path = script[i][2]
       /\ step.data = files[Tail(script[i][3])]

\* key and value of the `env` line i
EnvKey(script, i) == SubSeq(script[i][2], 1, FindEq(script[i][2], 1) - 1)
EnvValue(script, i) ==
  SubSeq(script[i][2], FindEq(script[i][2], 1) + 1, Len(script[i][2]))

\* the env of the pack has the keys of the `env` lines, each with the value
\* of the last line that assigns it
EnvOfScript(env, script) ==
  LET lines == { i \in 1..Len(script) : IsOp(script, i, OpEnv) } IN
    /\ DOMAIN env = { EnvKey(script, i) : i \in lines }
    /\ \A i \in lines :
         (\A j \in lines : j > i => EnvKey(script, j) /= EnvKey(script, i))
           => env[EnvKey(script, i)] = EnvValue(script, i)

\* a line that sets cwd, timeout or env, or is blank or a comment, and has
\* nothing wrong with it
SettingLine(line) ==
  \/ line = <<>>
  \/ line[1][1] = 35
  \/ line[1] = OpCd /\ Len(line) = 2
  \/ line[1] = OpTimeout /\ Len(line) = 2 /\ strtoul(line[2]).ok
  \/ line[1] = OpEnv /\ Len(line) = 2 /\ FindEq(line[2], 1) > 1

\* C31: the steps of a compiled pack are the `put` and `exec` lines in
\* script order; each ExecStep has the cwd of the last `cd` line and the
\* timeout of the last `timeout` line before it (empty and 0 when none); the
\* steps of a script are the steps of each of its beginnings followed by
\* more; env has the last value assigned to each key; a script without
\* steps fails with `script has no steps`.
C31_ScriptOrder ==
  Compiled =>
    LET script == codec.input.script
        files == codec.input.files
        fault == codec.input.fault
        lines == StepLines(script)
        r == codec.enc
    IN  /\ r.ok =>
             /\ Len(r.pack.steps) = Len(lines)
             /\ \A j \in 1..Len(lines) : StepOfLine(r.pack.steps[j], script, lines[j], files)
             /\ EnvOfScript(r.pack.env, script)
             /\ \A k \in 1..Len(script) :
                  LET b == compile_script(SubSeq(script, 1, k), <<107>>, 0, 0,
                                          [i \in 1..16 |-> 0], files, fault)
                  IN  b.ok => /\ Len(b.pack.steps) <= Len(r.pack.steps)
                              /\ b.pack.steps = SubSeq(r.pack.steps, 1, Len(b.pack.steps))
        /\ lines = <<>> => ~r.ok
        /\ (\A i \in 1..Len(script) : SettingLine(script[i]))
             => ~r.ok /\ r.error = "script has no steps"

\* a script whose `exec` stands between two different `cd` lines compiled,
\* and the step has the cwd of the first
C31_Witness ==
  /\ Compiled /\ codec.enc.ok
  /\ \E i \in 1..Len(codec.input.script) : \E j \in 1..Len(codec.input.script) :
       /\ i < j
       /\ IsOp(codec.input.script, i, OpExec)
       /\ IsOp(codec.input.script, j, OpCd)
       /\ codec.enc.pack.steps[1].cwd /= <<>>
       /\ codec.input.script[j][2] /= codec.enc.pack.steps[1].cwd

\* a key assigned twice has its second value
EnvAssignedTwice ==
  /\ Compiled /\ codec.enc.ok
  /\ \E i \in 1..Len(codec.input.script) : \E j \in 1..Len(codec.input.script) :
       /\ i < j
       /\ IsOp(codec.input.script, i, OpEnv) /\ IsOp(codec.input.script, j, OpEnv)
       /\ EnvKey(codec.input.script, i) = EnvKey(codec.input.script, j)
       /\ EnvValue(codec.input.script, i) /= EnvValue(codec.input.script, j)
       /\ codec.enc.pack.env[EnvKey(codec.input.script, j)] = EnvValue(codec.input.script, j)

\* a script of three setting lines failed for want of steps
NoStepsRejected ==
  Compiled /\ Len(codec.input.script) = MaxScriptLines
    /\ codec.input.script[1] /= <<>>
    /\ codec.enc.error = "script has no steps"

----------------------------------------------------------------------------
(* Failed writes.                                                          *)

\* handler c's step in this transition is a WriteFileStep that failed
WriteFailedIn(c) ==
  /\ conn[c].pc = "steps"
  /\ Len(conn'[c].resp) = Len(conn[c].resp) + 1
  /\ conn'[c].resp[Len(conn'[c].resp)].kind = "STEP"
  /\ conn'[c].resp[Len(conn'[c].resp)].what = "write ERR"

\* no temp file of safe_write_file in any directory
NoTempFiles(files) == \A f \in DOMAIN files : Last(f) /= ".ap_tmp"

\* C32: when safe_write_file fails, the regular files are exactly those
\* before the step with the modes they had, no temp file remains, and the
\* path is not added to the written paths of the pack.
C32_FailedWriteNoTrace ==
  [][\A c \in Conns :
       WriteFailedIn(c) =>
         /\ fs' = fs
         /\ NoTempFiles(fs')
         /\ conn'[c].written_canon_paths = conn[c].written_canon_paths]_vars

\* a write onto an existing file failed in rename after the temp file was
\* created, and the file has the mode it had
C32_Witness ==
  \E c \in Conns :
    /\ conn[c].pc = "respond"
    /\ Len(conn[c].resp) = 2
    /\ conn[c].resp[2].kind = "STEP" /\ conn[c].resp[2].what = "write ERR"
    /\ conn[c].resp[2].detail = "rename failed"
    /\ conn[c].pack.steps[1].op = "write"
    /\ conn[c].pack.steps[1].path = Path(TRUE, <<"sb", "data">>)
    /\ conn[c].tmp_dirs /= {}
    /\ fs = InitialFiles

\* the failure named by `detail` happened
WriteFailedWith(detail) ==
  \E c \in Conns : \E i \in 1..Len(conn[c].resp) :
    conn[c].resp[i].kind = "STEP" /\ conn[c].resp[i].what = "write ERR"
      /\ conn[c].resp[i].detail = detail
TempNotRegular == WriteFailedWith("temp is not a regular file")
WriteFailedSeen == WriteFailedWith("write failed")
DestinationIsDirectory == WriteFailedWith("destination is a directory")

----------------------------------------------------------------------------
(* The mode of a written file.                                             *)

\* bit k of a 32-bit value in the two's-complement reading
BitOf(v, k) == IF k = 31 THEN (IF v < 0 THEN 1 ELSE 0) ELSE (v \div (2 ^ k)) % 2

\* v & 0777, bit by bit
LowNine(v) ==
  BitOf(v, 0) + 2 * BitOf(v, 1) + 4 * BitOf(v, 2) + 8 * BitOf(v, 3) + 16 * BitOf(v, 4)
    + 32 * BitOf(v, 5) + 64 * BitOf(v, 6) + 128 * BitOf(v, 7) + 256 * BitOf(v, 8)

\* handler c's step in this transition is a WriteFileStep that succeeded
WriteSucceededIn(c) ==
  /\ conn[c].pc = "steps"
  /\ Len(conn'[c].resp) = Len(conn[c].resp) + 1
  /\ conn'[c].resp[Len(conn'[c].resp)].kind = "STEP"
  /\ conn'[c].resp[Len(conn'[c].resp)].what = "write OK"

\* C33: the mode of a file a WriteFileStep wrote is the requested mode's low
\* nine bits, or 0644 when they are all zero; it has no setuid, setgid or
\* sticky bit and no bit above 0777.
C33_ModeMasking ==
  [][\A c \in Conns :
       WriteSucceededIn(c) =>
         LET requested == conn[c].pack.steps[conn[c].i + 1].mode
             applied == IF LowNine(requested) = 0 THEN 420 ELSE LowNine(requested)
         IN  \E w \in conn'[c].written_canon_paths :
               /\ w.c \in DOMAIN fs'
               /\ fs'[w.c] = applied
               /\ \A k \in 9..31 : BitOf(fs'[w.c], k) = 0
               /\ \A f \in DOMAIN fs' :
                    (f \notin DOMAIN fs \/ fs'[f] /= fs[f]) => f = w.c]_vars

\* a file requested with mode 07644 was written with 0644
C33_Witness ==
  \E c \in Conns :
    /\ Len(conn[c].resp) >= 2
    /\ conn[c].resp[2].kind = "STEP" /\ conn[c].resp[2].what = "write OK"
    /\ conn[c].pack.steps[1].mode = 4004
    /\ fs[<<"sb", "run.sh">>] = 420

\* a file requested with 0x80000000 was written with 0644, one requested
\* with 0xffffffff with 0777
HighBitDropped ==
  \E c \in Conns :
    /\ Len(conn[c].resp) = 2 /\ conn[c].resp[2].what = "write OK"
    /\ conn[c].pack.steps[1].mode = (0 - 2147483647) - 1
    /\ fs[<<"sb", "run.sh">>] = 420
AllOnesMasked ==
  \E c \in Conns :
    /\ Len(conn[c].resp) = 2 /\ conn[c].resp[2].what = "write OK"
    /\ conn[c].pack.steps[1].mode = -1
    /\ fs[<<"sb", "run.sh">>] = 511

----------------------------------------------------------------------------
(* The capture buffers of run_capture.                                     *)

\* what one pass of drain does to a stream that is open: the capture grows
\* by bytes read in this pass only, bytes are left out only once the capture
\* is full, and nothing stays in the pipe
StreamDrained(open, have, have2, buf, buf2, max_bytes) ==
  IF open
  THEN /\ have2 >= have
       /\ have2 - have <= buf
       /\ have2 - have < buf => have2 = max_bytes
       /\ buf2 = 0
  ELSE have2 = have

\* C34: the captured stdout and stderr never hold more than max_bytes; a
\* capture only grows, by the bytes read from its stream, and skips bytes
\* only when it is full, so it is a prefix of what the child wrote; every
\* pass of the loop empties the pipes whether or not the capture is full.
C34_BoundedCapture ==
  /\ [](run.res.out <= run.max_bytes /\ run.res.err <= run.max_bytes)
  /\ [][run.pc = "poll" /\ run'.pc = "loop" =>
          /\ StreamDrained(run.out_open, run.res.out, run'.res.out,
                           run.child.out_buf, run'.child.out_buf, run.max_bytes)
          /\ StreamDrained(run.err_open, run.res.err, run'.res.err,
                           run.child.err_buf, run'.child.err_buf, run.max_bytes)]_vars
  /\ [][run.pc \notin {"idle", "done"} /\ ~(run.pc = "poll" /\ run'.pc = "loop") =>
          run'.res.out = run.res.out /\ run'.res.err = run.res.err]_vars

\* the capture of stdout is full and the child has written more
C34_Witness ==
  /\ run.pc = "poll" /\ run.out_open
  /\ run.res.out = run.max_bytes
  /\ run.child.out_buf = MaxBuf

\* a call returned with a full capture of stderr
FullCaptureReturned == run.pc = "done" /\ run.res.err = run.max_bytes /\ run.max_bytes = 3

----------------------------------------------------------------------------
(* Signals sent by run_capture.                                            *)

\* C36: run_capture sends no signal to a pid that it has already reaped: once
\* waitpid has returned the child's pid, no kill(pid, ...) follows.
C36_NoKillAfterReap == ~run.child.kill_after_reap

\* the call timed out while the child was still running and killed it
KilledWhileRunning == run.pc = "reap" /\ run.child.killed /\ ~run.exited

----------------------------------------------------------------------------
(* The 64-bit sums of the time checks.                                     *)

\* the answer of the time check of connection c in this step
TimeAnswer(c, detail) ==
  /\ conn[c].pc = "time"
  /\ conn'[c] /= conn[c]
  /\ conn'[c].resp = <<ErrLine(detail)>>

\* C39: a pack is answered "pack expired" only if now exceeds the number
\* expires_ms + 30000, also when expires_ms lies within 30000 of 2^64 - 1,
\* and "created_ms in future" only if created_ms exceeds the number
\* now + 30000.
C39_ExpiryNoWrap ==
  [][ \A c \in Conns :
        /\ TimeAnswer(c, "pack expired") => Expired(conn[c].pack, clock)
        /\ TimeAnswer(c, "created_ms in future") => CreatedInFuture(conn[c].pack, clock) ]_vars

\* the comparison of created_ms alone does not wrap
CreatedNoWrap ==
  [][ \A c \in Conns :
        TimeAnswer(c, "created_ms in future") => CreatedInFuture(conn[c].pack, clock) ]_vars

\* a pack expiring within 30000 of 2^64 - 1 was answered "pack expired"
FarFutureExpired ==
  \E c \in Conns :
    /\ AnsweredErr(c, "pack expired")
    /\ conn[c].pack.expires_ms < 0

----------------------------------------------------------------------------
(* The receiver with one connection and exec steps of every kind of cwd    *)
(* and of relative command: inside the root, outside it, through symbolic  *)
(* links in both directions, missing.                                      *)

EchoIn(cwd) == Exec(Bare("echo"), cwd)

CwdChoices ==
  { EchoIn(EmptyStr),
    EchoIn(Path(TRUE, <<"etc">>)),
    EchoIn(Path(TRUE, <<"nothere">>)),
    EchoIn(Path(TRUE, <<"ln">>)),
    EchoIn(Path(TRUE, <<"sb", "out">>)),
    EchoIn(Path(TRUE, <<"sb", "..", "home">>)),
    EchoIn(Path(FALSE, <<"sb">>)),
    EchoIn(Path(FALSE, <<"~">>)),
    Exec(RunSh, EmptyStr),
    Exec(Path(FALSE, <<".", "tool">>), EmptyStr),
    Exec(Path(FALSE, <<".", "tool">>), Path(TRUE, <<"ln">>)),
    Exec(Path(FALSE, <<".", "tool">>), Path(TRUE, <<"etc">>)),
    Exec(Path(FALSE, <<".", "nothere">>), EmptyStr),
    Exec(Path(FALSE, <<"..", "bin", "evil">>), EmptyStr),
    Exec(Path(FALSE, <<"out", "passwd">>), EmptyStr),
    Exec(Path(FALSE, <<"pw">>), EmptyStr),
    Exec(Path(FALSE, <<"~", "tool">>), EmptyStr) }

CwdRequests ==
  { Signed(Pack("k1", PackId(10), 0, 0, <<>>, <<a, b>>)) : a \in CwdChoices, b \in CwdChoices }

InitCwd == InitWith({2}, ExecPolicies, {NoEnviron})

NextCwd == NextOver(CwdRequests, { <<127, 0>> }, 1)

SpecCwd == InitCwd /\ [][NextCwd]_vars

\* the file or directory that path p names lies under the root directory
NamesUnderRoot(p) ==
  LET r == Lookup(fs, p)
      root == Lookup(fs, opts.action_pack_root)
  IN r /= NoFile /\ root /= NoFile /\ IsPrefix(root, r)

\* the step that handler c is about to run
StepOf(c) == conn[c].pack.steps[conn[c].i + 1]

\* handler c runs an ExecStep with an argv in this step
ExecStepBy(c) ==
  /\ conn[c].pc = "steps"
  /\ conn'[c] /= conn[c]
  /\ StepOf(c).op = "exec"
  /\ StepOf(c).argv /= <<>>

\* the step of c fails with code e and spawns nothing
FailsWith(c, e) ==
  /\ conn'[c].resp = Append(conn[c].resp, StepLine(conn[c].i, "ERR", e))
  /\ conn'[c].pc = "respond"
  /\ spawned' = spawned

\* the directory the step asks for: its own cwd, or the configured root
AskedCwd(step) ==
  expand_vars(IF step.cwd = EmptyStr THEN opts.action_pack_root ELSE step.cwd)

\* argv[0] as handle_pack tests it
AskedCmd(step) == expand_vars(resolve_argv(step.argv)[1])

\* a relative argv[0] with a '/'
RelativeWithSlash(cmd) == cmd /= EmptyStr /\ ~cmd.abs /\ Len(cmd.c) > 1

\* the relative command in the directory
CmdIn(dir, cmd) == Path(TRUE, dir \o cmd.c)

\* C35: a process is spawned for an ExecStep only with the realpath of the
\* step's cwd (of the root when the step has none) as its cwd, and that lies
\* under the root; a relative argv[0] with a '/' is replaced by its realpath
\* under that cwd, which lies under the root; a step whose cwd or command
\* does not resolve, or resolves outside the root, fails with bad_cwd,
\* cwd_outside_root, bad_cmd_path or cmd_outside_root and spawns nothing.
C35_SpawnUnderRoot ==
  [][ \A c \in Conns :
        ExecStepBy(c) =>
          LET step == StepOf(c)
              dir == Lookup(fs, AskedCwd(step))
              cmd == AskedCmd(step)
              exe == Lookup(fs, CmdIn(dir, cmd))
          IN IF dir = NoFile THEN FailsWith(c, "bad_cwd")
             ELSE IF ~NamesUnderRoot(AskedCwd(step)) THEN FailsWith(c, "cwd_outside_root")
             ELSE IF RelativeWithSlash(cmd) /\ exe = NoFile THEN FailsWith(c, "bad_cmd_path")
             ELSE IF RelativeWithSlash(cmd) /\ ~NamesUnderRoot(CmdIn(dir, cmd))
               THEN FailsWith(c, "cmd_outside_root")
             ELSE spawned' /= spawned =>
                    LET new == spawned'[Len(spawned')] IN
                      /\ spawned' = Append(spawned, new)
                      /\ new.cwd = Path(TRUE, dir)
                      /\ NamesUnderRoot(new.cwd)
                      /\ RelativeWithSlash(cmd) =>
                           new.argv[1] = Path(TRUE, exe) /\ NamesUnderRoot(new.argv[1]) ]_vars

\* a step with a relative command was spawned in a cwd given through a
\* symbolic link into the root
C35_Witness ==
  \E k \in DOMAIN spawned :
    LET step == conn[spawned[k].conn].pack.steps[spawned[k].step + 1] IN
      /\ step.cwd = Path(TRUE, <<"ln">>)
      /\ RelativeWithSlash(step.argv[1])
      /\ spawned[k].cwd = SandboxRoot
      /\ spawned[k].argv[1] = Path(TRUE, <<"sb", "tool">>)

\* the four failures of the claim all happen
StepFailedWith(e) ==
  \E c \in Conns :
    /\ Finished(c) /\ conn[c].resp /= <<>>
    /\ Last(conn[c].resp) = StepLine(conn[c].i, "ERR", e)

BadCwdSeen == StepFailedWith("bad_cwd")

CwdOutsideSeen == StepFailedWith("cwd_outside_root")

BadCmdPathSeen == StepFailedWith("bad_cmd_path")

CmdOutsideSeen == StepFailedWith("cmd_outside_root")

----------------------------------------------------------------------------
(* The receiver whose accept() can fail, with peers that keep connecting   *)
(* and a fair scheduler for the loop and the handler threads.              *)

NextAccept == NextConn \/ AcceptError

SpecAccept == InitConn /\ [][NextAccept]_vars /\ WF_vars(NextConn)

\* the same receiver with an accept() that never fails
SpecAcceptNoError == InitConn /\ [][NextConn]_vars /\ WF_vars(NextConn)

\* every incoming connection has been refused, or handled and closed
AllServed == \A c \in Conns : conn[c].pc \in { "refused", "closed" }

\* C40: the accept loop keeps serving: whatever accept() calls failed, the
\* connections that arrive afterwards are accepted and handled.
C40_AcceptLoopKeepsServing == <>AllServed

\* the loop has left `while (true)` with connections still to come
LoopStopped == loop.pc = "stopped" /\ loop.accepted < NumConns

----------------------------------------------------------------------------
(* Two concurrent `register` processes on one receiver directory.          *)

InitRegister == InitWith({2}, {NoPolicy}, {NoEnviron})

SpecRegister == InitRegister /\ [][NextRegister]_vars

\* the names that have a line in the directory file
NamesIn(file) == { file[i][1] : i \in DOMAIN file }

\* both processes have registered successfully, under different names
BothRegistered ==
  /\ \A p \in RegProcs : reg.proc[p].pc = "done" /\ reg.proc[p].exit = 0
  /\ reg.proc[1].name /= reg.proc[2].name

\* C38: upserts of the receiver directory are not lost: no name ever leaves
\* the file, and once two registers of different names have both succeeded
\* the file holds both names.
C38_UpsertsNotLost ==
  /\ [][NamesIn(reg.file) \subseteq NamesIn(reg'.file)]_vars
  /\ [](BothRegistered => \A p \in RegProcs : reg.proc[p].name \in NamesIn(reg.file))

\* the two registers ran one after the other and the file holds both names
RegisteredInTurn ==
  /\ BothRegistered
  /\ \A p \in RegProcs : reg.proc[p].name \in NamesIn(reg.file)

\* both registers succeeded and the name of one is missing from the file
UpsertLost ==
  /\ BothRegistered
  /\ \E p \in RegProcs : reg.proc[p].name \notin NamesIn(reg.file)

----------------------------------------------------------------------------
(* The receiver whose exec steps go through run_capture: a handler thread  *)
(* calls run_capture and goes on when the call returns.  Threads and      *)
(* the accept loop are scheduled fairly; a child that exits on its own     *)
(* does so eventually, a child that does not is only ended by SIGKILL.     *)

\* the step that handler c is at spawns a process
SpawningStep(c) ==
  /\ conn[c].pc = "steps"
  /\ StepOf(c).op = "exec"
  /\ LET plan == ExecPlan(opts, conn[c].policy, conn[c].written_canon_paths, fs, StepOf(c))
     IN plan.err = "" /\ CanSpawn(fs, plan.argv[1])

\* handle_pack calls run_capture(argv, env_add, cwd, step->timeout_ms, max_bytes)
ExecCall(c) ==
  /\ SpawningStep(c)
  /\ run.pc = "idle"
  /\ LET plan == ExecPlan(opts, conn[c].policy, conn[c].written_canon_paths, fs, StepOf(c)) IN
       /\ spawned' = Append(spawned,
             [ conn |-> c, step |-> conn[c].i, argv |-> plan.argv, cwd |-> plan.cwd,
               exe |-> Lookup(fs, plan.argv[1]),
               envp |-> SpawnEnv(environ, conn[c].env_add),
               env_add |-> conn[c].env_add,
               written |-> conn[c].written_canon_paths ])
       /\ \E lives \in { "exits", "forever" } :
            run' = [IdleRun EXCEPT
                      !.pc = "loop", !.timeout_ms = StepOf(c).timeout_ms,
                      !.max_bytes = MaxBuf + 1,
                      !.out_open = TRUE, !.err_open = TRUE,
                      !.child = [NoChild EXCEPT !.state = "running", !.lives = lives,
                                                !.out_w = TRUE, !.err_w = TRUE]]
  /\ conn' = [conn EXCEPT ![c].pc = "run_capture"]
  /\ UNCHANGED <<reg, codec, opts, st, mu, cur_, max_, loop, clock, environ, fs>>

\* run_capture has returned: the step's line, and the loop goes on if r.ok
ExecReturn(c) ==
  /\ conn[c].pc = "run_capture"
  /\ run.pc = "done"
  /\ conn' = [conn EXCEPT
                ![c].resp = Append(@, StepLine(conn[c].i, "exec",
                                               IF run.res.ok THEN "exit=0" ELSE "failed")),
                ![c].i = @ + 1,
                ![c].pc = AfterStep(c, ~run.res.ok)]
  /\ run' = IdleRun
  /\ UNCHANGED <<reg, codec, opts, st, mu, cur_, max_, loop, clock, environ, fs, spawned>>

\* the steps that spawn nothing: writes, and exec steps that fail before
\* run_capture
OtherStep(c) == ~SpawningStep(c) /\ RunStep(c)

\* a handler thread up to its response
HandlerCalling(c) ==
  \/ ReadRequest(c)
  \/ ParseEnvelope(c)
  \/ ParsePayload(c)
  \/ LookupPolicy(c)
  \/ LookupKey(c)
  \/ Verify(c)
  \/ CheckTime(c)
  \/ ReplayLock(c)
  \/ ReplayFind(c)
  \/ ReplayInsert(c)
  \/ BeginExecute(c)
  \/ OtherStep(c)
  \/ ExecCall(c)
  \/ ExecReturn(c)
  \/ WriteResponse(c)
  \/ Release(c)

\* an exec step with a timeout
ExecTimed(argv0, t) == [Exec(argv0, EmptyStr) EXCEPT !.timeout_ms = t]

PermitConns == 2

\* packs whose exec steps all have timeout_ms > 0: one that runs, one whose
\* command is refused; and a malformed envelope
PermitRequests ==
  { Signed(Pack("k1", PackId(10), 0, 0, <<>>, <<ExecTimed(Bare("echo"), 30)>>)),
    Signed(Pack("k1", PackId(11), 0, 0, <<>>, <<ExecTimed(Bare("foo"), 30)>>)),
    [Signed(PackB) EXCEPT !.framing = "bad"] }

InitPermit == InitWith({1}, {NoPolicy}, {NoEnviron})

NextPermit ==
  \/ Accept(PermitRequests, { <<127, 0>> }, PermitConns)
  \/ Acquire
  \/ \E c \in Conns : HandlerCalling(c)
  \/ RunCapture
  \/ ChildWrite
  \/ ChildClose
  \/ ChildExit

FairPermit ==
  /\ WF_vars(Acquire)
  /\ \A c \in Conns : WF_vars(HandlerCalling(c))
  /\ WF_vars(RunCapture)
  /\ WF_vars(ChildExit)

SpecPermit == InitPermit /\ [][NextPermit]_vars /\ FairPermit

\* the same receiver when every child exits on its own
SpecPermitExiting ==
  InitPermit /\ [][NextPermit /\ run'.child.lives /= "forever"]_vars /\ FairPermit

\* connection c holds a permit
HoldsPermit(c) ==
  conn[c].pc \notin { "idle", "refused", "admitted", "closed" }

\* C37: every admitted connection is eventually answered, closed, and its
\* permit released; the permit count is the number of connections that hold
\* one, so it is 0 when none is active; the accept loop waiting in acquire
\* eventually proceeds.
C37_PermitsReturned ==
  /\ \A c \in Conns : (conn[c].pc = "admitted") ~> (conn[c].pc = "closed")
  /\ [](cur_ = Cardinality({ c \in Conns : HoldsPermit(c) }))
  /\ (loop.pc = "acquire") ~> (loop.pc = "accept")

\* a handler is inside run_capture, which waits for a child that closed its
\* streams and does not exit
BlockedInWaitpid ==
  \E c \in Conns :
    /\ conn[c].pc = "run_capture"
    /\ run.pc = "wait"
    /\ run.timeout_ms > 0
    /\ run.child.lives = "forever"

\* the accept loop waits in acquire while the permit is held
AcquireWaits == loop.pc = "acquire" /\ cur_ = max_

=============================================================================
